---------------------------- MODULE Spec2Model ----------------------------
(***************************************************************************)
(* A model of the skill engine of chiron688/glm: the skill runner          *)
(* (phone_agent/skills/runner.py), its error-handling pipeline, and the    *)
(* dual-system coordinator (phone_agent/cota/coordinator.py, system2.py).  *)
(*                                                                         *)
(* Spec        the SkillRunner.run state machine over one skill definition *)
(* CoordSpec   COTACoordinator.run over System2.plan and System2.recover   *)
(* RouterSpec  SkillRouter.select over router configurations and tasks     *)
(* CondSpec    evaluate_condition over condition specs                     *)
(* BlockSpec   SkillRunner._check_condition_block over polling runs        *)
(* BackoffSpec SkillRunner._backoff over retry policies                    *)
(* InputSpec   the head of SkillRunner.run over declared and passed inputs *)
(* PlaybackSpec PlaybackObservationProvider over recording directories     *)
(* ClusterSpec ClusterRunner.run over endpoints, sequential and parallel   *)
(* ScoreSpec   SkillRouter.select with routing blocks and vocabulary files *)
(* RecoverSpec SlowPlannerSystem.recover over errors and analyses          *)
(* FairSpec    Spec with the before_step handler loop taken when enabled   *)
(* FairCoordSpec CoordSpec with the coordinator's steps taken when enabled *)
(* SelectorSpec resolve_selector_to_point over UI nodes and selectors      *)
(* RegistrySpec the head of SkillRunner.run over the objects it copies     *)
(***************************************************************************)
EXTENDS Integers, Sequences, FiniteSets, TLC

VARIABLES
    cfg,        \* SkillRunnerConfig: dry_run, strict flags, default_retry
    skill,      \* the registered SkillDefinition.spec that run() looks up
    call,       \* the arguments of run(): is the id registered, the inputs
    observer,   \* the observation provider (live, or playback with an index)
    pc,         \* position inside SkillRunner.run
    stepIdx,    \* index of the step being run (1-based), 0 outside the loop
    attempt,    \* local `attempt` of _run_step
    outcome,    \* local `outcome` of _run_step (unbound until first assigned)
    error,      \* local `error` of _run_step (unbound until first assigned)
    cycles,     \* local `cycles` of _apply_before_step_handlers
    report,     \* SkillRunReport.steps
    dispatched, \* every action handed to the device-capability interface
    result,     \* the SkillRunResult returned, or the exception raised
    applied,    \* the last _handle_error call: error, environment, selection;
                \* and what the last pre/postcondition check evaluated to
    co          \* COTACoordinator.run: its position, plan and call history;
                \* the arguments and result of the function under RouterSpec,
                \* CondSpec, BlockSpec, BackoffSpec, PlaybackSpec,
                \* ClusterSpec, ScoreSpec, RecoverSpec and SelectorSpec;
                \* the heap of objects under RegistrySpec

vars == <<cfg, skill, call, observer, pc, stepIdx, attempt, outcome, error,
          cycles, report, dispatched, result, applied, co>>

runnerVars == <<cfg, skill, call, observer, pc, stepIdx, attempt, outcome,
                error, cycles, report, dispatched, result, applied>>

---------------------------------------------------------------------------
(* Bounds of the model *)

MaxAttempts == 3
MaxSteps == 2
MaxRecords == 2
MaxPolls == 2
MaxPlanSteps == 2

(* Program constants *)

max_handler_cycles == 3

---------------------------------------------------------------------------
(* Data *)

Tri == {"true", "false", "unknown"}

Codes == {"PRECONDITION_FAILED", "PRECONDITION_UNKNOWN", "SCREEN_MISMATCH",
          "TARGET_NOT_FOUND", "ACTION_FAILED", "ACTION_EXCEPTION",
          "POSTCONDITION_FAILED", "TIMEOUT", "DEVICE_ERROR",
          "ERROR_SCREEN_DETECTED", "HANDLER_FAILED", "ABORTED", "UNKNOWN"}

\* SkillError(code, message, stage, step_id, error_id, attempt, details,
\* requires_takeover).  step_id 0 and attempt 0 stand for None.
SkillError(code, stage, step_id, att) ==
    [code |-> code, stage |-> stage, step_id |-> step_id, attempt |-> att,
     error_id |-> "none", requires_takeover |-> FALSE, takeover_message |-> ""]

\* Python None where a SkillError is expected
NoError == SkillError("NONE", "", 0, 0)

\* SkillError.with_details(takeover_message=...)
with_details(err, msg) == [err EXCEPT !.takeover_message = msg]

\* `a or b` on optional SkillErrors
OrError(a, b) == IF a = NoError THEN b ELSE a

\* RetryPolicy(max_attempts, on_codes); has_codes = FALSE is on_codes None
RetryPolicy(n, has, codes) ==
    [max_attempts |-> n, has_codes |-> has, on_codes |-> codes]

\* a `retry:` mapping of a step or handler; present = FALSE is a missing or
\* empty mapping, max_attempts = -1 a mapping without that key
RetrySpec(present, n, has, codes) ==
    [present |-> present, max_attempts |-> n, has_codes |-> has, on_codes |-> codes]

NoRetrySpec == RetrySpec(FALSE, -1, FALSE, {})

\* HandlerOutcome(resolution, retry_policy, error)
HandlerOutcome(resolution, has_policy, policy, err) ==
    [resolution |-> resolution, has_policy |-> has_policy,
     retry_policy |-> policy, error |-> err]

NoPolicy == RetryPolicy(0, FALSE, {})

\* the local `outcome` before its first assignment
Unbound == HandlerOutcome("unbound", FALSE, NoPolicy, NoError)

Max(a, b) == IF a >= b THEN a ELSE b

---------------------------------------------------------------------------
(* Skill definitions: steps, condition blocks, error handlers *)

\* an action spec: only the name decides whether a target must be resolved
TapLike == {"Tap", "Double Tap", "Long Press"}

\* a precondition / guard / assert / postcondition block
\* (present = FALSE: None; timeout: timeout_ms > 0; mode: strict / best_effort)
Block(present, timeout, mode) ==
    [present |-> present, timeout |-> timeout, mode |-> mode]

NoBlock == Block(FALSE, FALSE, "strict")

\* the atomic conditions an error handler's `when` may name
WhenConds == {"w1", "w2"}

\* an entry of on_error / error_handlers.  codes = {} and error_ids = {} are
\* missing (or empty) filters, when = "none" a missing condition,
\* resolution = "" a missing resolution, takeover_message = "" a missing one.
Handler(trigger, codes, error_ids, when, resolution, retry, actions, msg) ==
    [trigger |-> trigger, codes |-> codes, error_ids |-> error_ids,
     when |-> when, resolution |-> resolution, retry |-> retry,
     actions |-> actions, takeover_message |-> msg]

\* a step of the skill
Step(action, optional, retry, guard, assert, on_error) ==
    [action |-> action, optional |-> optional, retry |-> retry,
     guard |-> guard, assert |-> assert, on_error |-> on_error]

---------------------------------------------------------------------------
(* Retry policy: runner.py _parse_retry_policy, _should_retry *)

\* _parse_retry_policy(spec, fallback)
_parse_retry_policy(spec, fallback) ==
    IF ~spec.present
    THEN fallback
    ELSE RetryPolicy(
           IF spec.max_attempts = -1 THEN fallback.max_attempts
                                     ELSE spec.max_attempts,
           IF spec.has_codes THEN TRUE ELSE fallback.has_codes,
           IF spec.has_codes THEN spec.on_codes ELSE fallback.on_codes)

_should_retry_any_code(err, retry_policy, att) == att < retry_policy.max_attempts

\* _should_retry(error, retry_policy, attempt)
_should_retry(err, retry_policy, att) ==
    IF att >= retry_policy.max_attempts
    THEN FALSE
    ELSE IF ~retry_policy.has_codes
         THEN TRUE
         ELSE err.code \in retry_policy.on_codes

---------------------------------------------------------------------------
(* Handler search: runner.py _collect_handlers, _find_error_handler *)

\* the handlers of `hs` with the given trigger, each tagged with the list it
\* was declared in and its position there
RECURSIVE Tagged(_, _, _, _)
Tagged(hs, scope, trigger, i) ==
    IF i > Len(hs)
    THEN <<>>
    ELSE (IF hs[i].trigger = trigger
          THEN <<[scope |-> scope, index |-> i, h |-> hs[i]]>>
          ELSE <<>>) \o Tagged(hs, scope, trigger, i + 1)

\* step-local handlers first, then the skill-wide ones (step = None: only the
\* skill-wide ones)
_collect_handlers(has_step, on_error, error_handlers, trigger) ==
    (IF has_step THEN Tagged(on_error, "step", trigger, 1) ELSE <<>>)
        \o Tagged(error_handlers, "skill", trigger, 1)

\* one iteration of the `for handler in handlers` loop: does it reach `return`
HandlerMatches(h, err, wv) ==
    /\ ~(h.codes # {} /\ err.code \notin h.codes)
    /\ ~(h.error_ids # {} /\ err.error_id \notin h.error_ids)
    /\ (h.when # "none" => wv[h.when] = "true")

NoHandler == [scope |-> "none", index |-> 0,
              h |-> Handler("on_error", {}, {}, "none", "", NoRetrySpec, <<>>, "")]

RECURSIVE FirstMatch(_, _, _, _)
FirstMatch(hs, err, wv, i) ==
    IF i > Len(hs)
    THEN NoHandler
    ELSE IF HandlerMatches(hs[i].h, err, wv)
         THEN hs[i]
         ELSE FirstMatch(hs, err, wv, i + 1)

_find_error_handler_last(err, has_step, on_error, error_handlers, wv) ==
    FirstMatch(_collect_handlers(has_step, error_handlers, on_error, "on_error"),
               err, wv, 1)

\* _find_error_handler(error, step, spec, observation): the tagged handler
\* selected, or NoHandler
_find_error_handler(err, has_step, on_error, error_handlers, wv) ==
    FirstMatch(_collect_handlers(has_step, on_error, error_handlers, "on_error"),
               err, wv, 1)

---------------------------------------------------------------------------
(* Observation provider: observation.py ObservationProvider.capture,       *)
(* PlaybackObservationProvider.capture                                     *)

\* a live provider, or a playback provider over `records` recordings
Observer(playback, records) ==
    [playback |-> playback, index |-> 0, records |-> records]

\* capture() returns (a playback provider raises IndexError once exhausted)
CaptureReturns(obs) == ~obs.playback \/ obs.index < obs.records

\* the provider after a capture() that returned
Captured(obs) == IF obs.playback THEN [obs EXCEPT !.index = @ + 1] ELSE obs

---------------------------------------------------------------------------
(* Device-capability interface and handler actions: runner.py              *)
(* _build_action, _execute_handler_actions                                 *)

\* what the environment does to one action: does the target resolve, and what
\* does action_handler.execute do (return success, return failure, raise)
ActEnv == [build : {"found", "notfound"}, exec : {"ok", "fail", "raise"}]

\* an entry of the log of actions handed to action_handler.execute, with what
\* execute did with it ("ok": success, "fail": success = False, "raise").
\* A step's action carries the step and attempt it was dispatched in.
Dispatch(kind, name, msg, step, att, res) ==
    [kind |-> kind, action |-> name, message |-> msg, step |-> step,
     attempt |-> att, result |-> res]

\* _build_action returns an action (it raises when a tap target is unresolved)
Builds(action, env) == ~(action \in TapLike /\ env.build = "notfound")

\* the effect of a piece of code: how it ended, the actions it dispatched and
\* the provider it left
Effect(status, disp, obs) == [status |-> status, disp |-> disp, obs |-> obs]

\* _execute_handler_actions(handler, observation), from the i-th action on.
\* status "ok" is return True, "fail" return False, any other status names
\* the exception that leaves the method: `raise SkillError(...)` in _build_action raises TypeError
\* (SkillError is a dataclass, not an exception) and `except SkillError` cannot
\* catch it; execute() and capture() are not guarded at all.
RECURSIVE _execute_handler_actions(_, _, _, _, _, _)
_execute_handler_actions(actions, envs, i, dry_run, disp, obs) ==
    IF i > Len(actions)
    THEN Effect("ok", disp, obs)
    ELSE IF ~Builds(actions[i], envs[i])
    THEN Effect("TypeError", disp, obs)
    ELSE IF dry_run
    THEN _execute_handler_actions(actions, envs, i + 1, dry_run, disp, obs)
    ELSE LET sent == Append(disp, Dispatch("handler", actions[i], "", 0, 0,
                                       envs[i].exec))
         IN  IF envs[i].exec = "raise"
             THEN Effect("Exception", sent, obs)
             ELSE IF envs[i].exec = "fail"
             THEN Effect("fail", sent, obs)
             ELSE IF ~CaptureReturns(obs)
             THEN Effect("IndexError", sent, obs)
             ELSE _execute_handler_actions(actions, envs, i + 1, dry_run,
                                           sent, Captured(obs))

---------------------------------------------------------------------------
(* Error-handling pipeline: runner.py _handle_error *)

DefaultTakeoverMessage == "User intervention required"

\* what the environment does during one _handle_error call: the value of each
\* `when` condition on the current observation, the fate of each recovery
\* action, and whether dispatching Take_over raises
HandlerEnv(n) == [when : [WhenConds -> Tri],
                  acts : [1..n -> ActEnv],
                  takeover : {"ok", "raise"}]

Raises(status) == status \notin {"ok", "fail"}

\* the result of _handle_error: the HandlerOutcome (raised # "": the
\* exception that left the method instead), the dispatch log and provider
\* after it, and the handler that was selected
Handled(raised, out, disp, obs, sel) ==
    [raised |-> raised, outcome |-> out, disp |-> disp, obs |-> obs, sel |-> sel]

_handle_error_keep_resolution(err, has_step, step, error_handlers, env, disp, obs) ==
    LET sel == _find_error_handler(err, has_step, step.on_error, error_handlers,
                                   env.when)
        h == sel.h
        eff == _execute_handler_actions(h.actions, env.acts, 1, cfg.dry_run,
                                        disp, obs)
        resolution == IF h.resolution = "" THEN "retry" ELSE h.resolution
    IN  IF sel.scope = "none"
        THEN Handled("", HandlerOutcome("retry", FALSE, NoPolicy, NoError),
                     disp, obs, sel)
        ELSE Handled("",
                     HandlerOutcome(resolution, h.retry.present,
                         _parse_retry_policy(h.retry, cfg.default_retry), err),
                     eff.disp, eff.obs, sel)

\* _handle_error(error, step, spec, observation)
_handle_error(err, has_step, step, error_handlers, env, disp, obs) ==
    LET sel == _find_error_handler(err, has_step, step.on_error, error_handlers,
                                   env.when)
        h == sel.h
        eff == _execute_handler_actions(h.actions, env.acts, 1, cfg.dry_run,
                                        disp, obs)
        resolution == IF h.resolution = "" THEN "retry" ELSE h.resolution
        msg == IF h.takeover_message = "" THEN DefaultTakeoverMessage
                                          ELSE h.takeover_message
        sent == IF cfg.dry_run THEN eff.disp
                ELSE Append(eff.disp, Dispatch("takeover", "Take_over", msg, 0, 0,
                                              env.takeover))
        escalated == [with_details(err, msg) EXCEPT !.requires_takeover = TRUE]
    IN  IF sel.scope = "none"
        THEN IF has_step /\ step.optional
             THEN Handled("", HandlerOutcome("continue", FALSE, NoPolicy, NoError),
                          disp, obs, sel)
             ELSE Handled("", HandlerOutcome("retry", FALSE, NoPolicy, NoError),
                          disp, obs, sel)
        ELSE IF Raises(eff.status)
        THEN Handled(eff.status, Unbound, eff.disp, eff.obs, sel)
        ELSE IF eff.status = "fail"
        THEN Handled("",
                     HandlerOutcome("abort", FALSE, NoPolicy,
                         SkillError("HANDLER_FAILED", "handler", err.step_id,
                                    err.attempt)),
                     eff.disp, eff.obs, sel)
        ELSE IF resolution = "escalate"
        THEN IF ~cfg.dry_run /\ env.takeover = "raise"
             THEN Handled("Exception", Unbound, sent, eff.obs, sel)
             ELSE Handled("",
                          HandlerOutcome("escalate", FALSE, NoPolicy, escalated),
                          sent, eff.obs, sel)
        ELSE Handled("",
                     HandlerOutcome(resolution, h.retry.present,
                         _parse_retry_policy(h.retry, cfg.default_retry), err),
                     eff.disp, eff.obs, sel)

---------------------------------------------------------------------------
(* Condition blocks: runner.py _check_condition_block *)

\* one pass of the polling loop as the environment decides it: the value of
\* evaluate_condition on the observation, and whether the deadline has passed
Poll == [r : Tri, late : BOOLEAN]

PollSeqs == UNION {[1..n -> Poll] : n \in 1..MaxPolls}

\* the loop returns on this pass
Decides(block, p) ==
    \/ p.r = "true"
    \/ p.r = "false" /\ (~block.timeout \/ p.late)
    \/ p.r = "unknown" /\ (block.mode = "best_effort" \/ ~block.timeout \/ p.late)
    \/ ~block.timeout

VerdictByMode(block, strict, p) ==
    IF p.r = "unknown"
    THEN IF block.mode = "best_effort" THEN "true" ELSE "unknown"
    ELSE p.r

\* the value the loop returns on a pass that decides ("unknown" is None)
Verdict(block, strict, p) ==
    IF p.r = "unknown"
    THEN IF block.mode = "best_effort" THEN "true"
         ELSE IF strict THEN "unknown" ELSE "true"
    ELSE p.r

\* `ps` is a run of the loop: every pass but the last polls again, the last
\* one returns.  A missing block returns at once, without evaluating.
IsRun(block, ps) ==
    IF ~block.present
    THEN ps = <<[r |-> "true", late |-> FALSE]>>
    ELSE /\ \A i \in 1..(Len(ps) - 1) : ~Decides(block, ps[i])
         /\ Decides(block, ps[Len(ps)])
         /\ \A i \in 1..Len(ps) :
               ps[i].late => block.timeout /\ ps[i].r # "true"

\* _check_condition_block(block, observation, stage, strict) over the run
\* `ps`: the value returned and the provider left, or status "raise" when a
\* re-capture between polls raises
Checked(status, value, obs) == [status |-> status, value |-> value, obs |-> obs]

RECURSIVE _check_condition_block(_, _, _, _, _)
_check_condition_block(block, strict, ps, i, obs) ==
    IF ~block.present
    THEN Checked("ok", "true", obs)
    ELSE IF Decides(block, ps[i])
    THEN Checked("ok", Verdict(block, strict, ps[i]), obs)
    ELSE IF ~CaptureReturns(obs)
    THEN Checked("raise", "unknown", obs)
    ELSE _check_condition_block(block, strict, ps, i + 1, Captured(obs))

---------------------------------------------------------------------------
(* Input variables: runner.py _prepare_variables, utils.py render_templates *)

\* the names a skill and a caller may use, and the value of a name that a
\* dict does not hold
Names == {"a", "b"}

Absent == ""

\* an entry of spec["inputs"] (declared = FALSE: the name is not declared)
InputMeta(declared, has_default, required) ==
    [declared |-> declared, has_default |-> has_default, required |-> required]

Undeclared == InputMeta(FALSE, FALSE, FALSE)

\* the default an entry declares for a name
DefaultOf(n) == IF n = "a" THEN "a_default" ELSE "b_default"

\* render_string(value, variables): the template {{b}} becomes the value of
\* b when the variables hold one; any other text has no template
render_string(value, variables) ==
    IF value = "{{b}}" /\ variables["b"] # Absent THEN variables["b"] ELSE value

\* what the loop over spec["inputs"] leaves in variables[name], or "raise"
\* (lines 215-232); form is "dict" or "list"
Declared(form, meta, var, given) ==
    IF ~meta.declared THEN var
    ELSE IF form = "dict"
    THEN IF meta.has_default /\ given = Absent THEN "default"
         ELSE IF given # Absent THEN given
         ELSE IF meta.required THEN "raise"
         ELSE var
    ELSE IF given # Absent THEN given
         ELSE IF meta.has_default THEN "default"
         ELSE IF meta.required THEN "raise"
         ELSE var

update_defaults_first(variables, inputs) ==
    [n \in Names |-> IF variables[n] # Absent THEN variables[n] ELSE inputs[n]]

\* variables.update(inputs)
update(variables, inputs) ==
    [n \in Names |-> IF inputs[n] # Absent THEN inputs[n] ELSE variables[n]]

\* _prepare_variables(spec, inputs): status "ok" and the variables, or the
\* exception raised
_prepare_variables(form, metas, skill_vars, inputs) ==
    LET looped == [n \in Names |-> Declared(form, metas[n], skill_vars[n], inputs[n])]
        filled == [n \in Names |-> IF looped[n] = "default" THEN DefaultOf(n)
                                                            ELSE looped[n]]
        variables == update(filled, inputs)
    IN  IF \E n \in Names : looped[n] = "raise"
        THEN [status |-> "ValueError", variables |-> [n \in Names |-> Absent]]
        ELSE [status |-> "ok",
              variables |-> [n \in Names |-> render_string(variables[n], variables)]]

\* a call run(skill_id, inputs): whether the registry holds the skill, the
\* inputs and vars the skill declares, the inputs passed, and the variables
\* run has prepared
Call(registered, form, metas, skill_vars, inputs) ==
    [registered |-> registered, form |-> form, metas |-> metas, vars |-> skill_vars,
     inputs |-> inputs, variables |-> [n \in Names |-> Absent]]

Prepared(c) == _prepare_variables(c.form, c.metas, c.vars, c.inputs)

---------------------------------------------------------------------------
(* SkillRunner.run: the state of one run *)

\* spec["error_handlers"] after the merge of the common handlers
\* (runner.py run, lines 125-130)
MergedHandlers == cfg.common_error_handlers \o skill.error_handlers

\* retry_policy and max_attempts of _run_step for step i (lines 258-259)
StepPolicy(i) == _parse_retry_policy(skill.steps[i].retry, cfg.default_retry)

max_attempts_with_overrides(i) ==
    LET hs == skill.steps[i].on_error
        over == {hs[j].retry.max_attempts :
                   j \in {k \in DOMAIN hs : hs[k].retry.present}}
        top == IF over = {} THEN 0
               ELSE CHOOSE m \in over : \A n \in over : n <= m
    IN  Max(Max(1, StepPolicy(i).max_attempts), top)

max_attempts(i) == Max(1, StepPolicy(i).max_attempts)

\* StepReport / StepAttemptReport (reporting.py)
StepReport(i) == [step_id |-> i, attempts |-> <<>>, success |-> FALSE]

StepAttemptReport(att, has_action, success, err) ==
    [attempt |-> att, has_action |-> has_action, success |-> success, error |-> err]

\* SkillRunResult, or the exception that left run()
NoResult == [kind |-> "none", success |-> FALSE, error |-> NoError, exception |-> ""]

\* the mutable part of the state, as a record the pieces of run() transform
Cur == [pc |-> pc, stepIdx |-> stepIdx, attempt |-> attempt,
        outcome |-> outcome, error |-> error, cycles |-> cycles,
        report |-> report, dispatched |-> dispatched, observer |-> observer,
        result |-> result, applied |-> applied, call |-> call]

Set(ns) ==
    /\ pc' = ns.pc
    /\ stepIdx' = ns.stepIdx
    /\ attempt' = ns.attempt
    /\ outcome' = ns.outcome
    /\ error' = ns.error
    /\ cycles' = ns.cycles
    /\ report' = ns.report
    /\ dispatched' = ns.dispatched
    /\ observer' = ns.observer
    /\ result' = ns.result
    /\ applied' = ns.applied
    /\ call' = ns.call
    /\ UNCHANGED <<cfg, skill, co>>

\* run() returns SkillRunResult(success, message, error, report)
Returned(ns, success, err) ==
    [ns EXCEPT !.pc = "done",
               !.result = [kind |-> "returned", success |-> success,
                           error |-> err, exception |-> ""]]

\* an exception leaves run()
Raised(ns, exc) ==
    [ns EXCEPT !.pc = "done",
               !.result = [kind |-> "raised", success |-> FALSE,
                           error |-> NoError, exception |-> exc]]

\* the head of the `for step in steps` loop and of _run_step (lines 169-172,
\* 258-261)
BeginStep(ns, i) ==
    [ns EXCEPT !.pc = "loop", !.stepIdx = i, !.attempt = 0,
               !.outcome = Unbound, !.error = NoError, !.cycles = 0,
               !.report = Append(@, StepReport(i))]

EndStepIgnoringFailure(ns, success, err) ==
    LET rep == [ns.report EXCEPT ![Len(ns.report)].success = success]
        ns1 == [ns EXCEPT !.report = rep]
    IN  IF ns.stepIdx < Len(skill.steps)
        THEN [ns1 EXCEPT !.pc = "loop", !.stepIdx = ns.stepIdx + 1, !.attempt = 0,
                         !.outcome = Unbound, !.error = NoError, !.cycles = 0,
                         !.report = Append(@, [step_id |-> ns.stepIdx + 1,
                                               attempts |-> <<>>,
                                               success |-> FALSE])]
        ELSE [ns1 EXCEPT !.pc = "post"]

\* _run_step returns (success, observation, error): lines 173-181
EndStep(ns, success, err) ==
    LET rep == [ns.report EXCEPT ![Len(ns.report)].success = success]
        ns1 == [ns EXCEPT !.report = rep]
    IN  IF ~success
        THEN Returned(ns1, FALSE, err)
        ELSE IF ns.stepIdx < Len(skill.steps)
        THEN BeginStep(ns1, ns.stepIdx + 1)
        ELSE [ns1 EXCEPT !.pc = "post"]

\* step_report.attempts.append(StepAttemptReport(...))
Record(ns, has_action, success, err) ==
    [ns EXCEPT !.report[Len(ns.report)].attempts =
                   Append(@, StepAttemptReport(ns.attempt, has_action, success, err))]

\* the verdict code that follows every failure point of _run_step
\* (lines 294-304, 324-330, 351-359, 387-395, 416-424, 456-464, 484-492)
Resolve(ns, o, e) ==
    IF o.resolution = "continue"
    THEN EndStep(ns, TRUE, NoError)
    ELSE IF o.resolution \in {"abort", "escalate"}
    THEN EndStep(ns, FALSE, OrError(o.error, e))
    ELSE LET policy == IF o.has_policy THEN o.retry_policy
                                       ELSE StepPolicy(ns.stepIdx)
         IN  IF ~_should_retry(e, policy, ns.attempt)
             THEN EndStep(ns, FALSE, OrError(o.error, e))
             ELSE [ns EXCEPT !.pc = "loop"]

\* The environments that differ in something the call reads: conditions no
\* candidate handler names stay "unknown", only the selected handler's
\* actions meet the device, and Take_over is dispatched only on escalate
\* with dry_run off.
DefaultAct == [build |-> "found", exec |-> "ok"]

ActsRead(actions, a) ==
    \A i \in DOMAIN a :
        IF i > Len(actions)
        THEN a[i] = DefaultAct
        ELSE /\ (actions[i] \notin TapLike => a[i].build = "found")
             /\ (cfg.dry_run \/ a[i].build = "notfound" => a[i].exec = "ok")

WhensRead(handlers, wv) ==
    \A w \in WhenConds :
        (\A i \in DOMAIN handlers : handlers[i].h.when # w) => wv[w] = "unknown"

HandlerEnvs(err, has_step, step) ==
    LET cands == _collect_handlers(has_step, step.on_error, MergedHandlers,
                                   "on_error")
        h(wv) == FirstMatch(cands, err, wv, 1).h
    IN  UNION {{env \in HandlerEnv(Len(h(wv).actions)) :
                  /\ env.when = wv
                  /\ ActsRead(h(wv).actions, env.acts)
                  /\ (env.takeover = "raise" =>
                         h(wv).resolution = "escalate" /\ ~cfg.dry_run)} :
               wv \in {v \in [WhenConds -> Tri] : WhensRead(cands, v)}}

\* the same for the handlers of a before_step cycle
BeforeEnvs(hs) ==
    {envs \in [1..Len(hs) ->
                 UNION {HandlerEnv(Len(hs[i].h.actions)) : i \in 1..Len(hs)}] :
       \A i \in 1..Len(hs) :
          /\ DOMAIN envs[i].acts = 1..Len(hs[i].h.actions)
          /\ WhensRead(<<hs[i]>>, envs[i].when)
          /\ ActsRead(hs[i].h.actions, envs[i].acts)
          /\ envs[i].takeover = "ok"}

\* a failure point of _run_step: build the outcome with _handle_error, append
\* the attempt record, apply the verdict
Fail(ns, e, has_action, env) ==
    LET h == _handle_error(e, TRUE, skill.steps[ns.stepIdx], MergedHandlers,
                           env, ns.dispatched, ns.observer)
        ns1 == [ns EXCEPT !.dispatched = h.disp, !.observer = h.obs,
                          !.applied = [sel |-> h.sel, error |-> e, when |-> env.when,
                                       step |-> ns.stepIdx, acts |-> env.acts,
                                       before |-> ns.dispatched,
                                       checked |-> ns.applied.checked]]
        ns2 == [ns1 EXCEPT !.outcome = h.outcome, !.error = e]
    IN  IF h.raised # ""
        THEN Raised(ns1, h.raised)
        ELSE Resolve(Record(ns2, has_action, FALSE, OrError(h.outcome.error, e)),
                     h.outcome, e)

---------------------------------------------------------------------------
(* SkillRunner.run: the actions *)

NoStep == Step("Back", FALSE, NoRetrySpec, NoBlock, NoBlock, <<>>)

\* a failure of the preconditions or postconditions: _handle_error with
\* step = None, then return a failed result whatever the outcome
\* (lines 146-166, 189-207)
FailBlock(ns, e, env) ==
    LET h == _handle_error(e, FALSE, NoStep, MergedHandlers, env,
                           ns.dispatched, ns.observer)
        ns1 == [ns EXCEPT !.dispatched = h.disp, !.observer = h.obs,
                          !.applied = [sel |-> h.sel, error |-> e, when |-> env.when,
                                       step |-> 0, acts |-> env.acts,
                                       before |-> ns.dispatched,
                                       checked |-> ns.applied.checked]]
    IN  IF h.raised # ""
        THEN Raised(ns1, h.raised)
        ELSE Returned(ns1, FALSE, OrError(h.outcome.error, e))

\* the two failure routines under every environment that matters to them
FailStep(ns, e, has_action) ==
    \E env \in HandlerEnvs(e, TRUE, skill.steps[ns.stepIdx]) :
        Set(Fail(ns, e, has_action, env))

FailRun(ns, e) ==
    \E env \in HandlerEnvs(e, FALSE, NoStep) : Set(FailBlock(ns, e, env))

\* line 110: variables = self._prepare_variables(skill.spec, inputs or {})
WithVariables == [Cur EXCEPT !.call.variables = Prepared(call).variables]

\* run(skill_id, inputs) up to the step loop: lines 93-166
Run ==
    /\ pc = "idle"
    /\ IF ~call.registered
       THEN Set(Returned(Cur, FALSE, SkillError("UNKNOWN", "load", 0, 0)))
       ELSE IF Prepared(call).status # "ok"
       THEN Set(Returned(Cur, FALSE, SkillError("PRECONDITION_FAILED", "inputs", 0, 0)))
       ELSE IF ~CaptureReturns(observer)
       THEN Set(Raised(WithVariables, "IndexError"))
       ELSE \E ps \in PollSeqs :
              /\ IsRun(skill.preconditions, ps)
              /\ LET chk == _check_condition_block(skill.preconditions,
                                cfg.strict_preconditions, ps, 1, Captured(observer))
                     ns == [WithVariables EXCEPT !.observer = chk.obs,
                                                 !.applied.checked = ps[Len(ps)].r]
                     code == IF chk.value = "false" THEN "PRECONDITION_FAILED"
                                                    ELSE "PRECONDITION_UNKNOWN"
                 IN  IF chk.status = "raise"
                     THEN Set(Raised([WithVariables EXCEPT !.observer = chk.obs],
                                     "IndexError"))
                     ELSE IF chk.value = "true"
                     THEN Set(BeginStep(ns, 1))
                     ELSE FailRun(ns, SkillError(code, "preconditions", 0, 0))

\* the head of the attempt loop: lines 262-266
AttemptStart ==
    /\ pc = "loop"
    /\ attempt < max_attempts(stepIdx)
    /\ LET before == _collect_handlers(TRUE, skill.steps[stepIdx].on_error,
                                       MergedHandlers, "before_step")
           ns == [Cur EXCEPT !.attempt = attempt + 1, !.cycles = 0]
       IN  IF ~CaptureReturns(observer)
           THEN Set(Raised(ns, "IndexError"))
           ELSE Set([ns EXCEPT !.observer = Captured(observer),
                               !.pc = IF before = <<>> THEN "guard" ELSE "before"])

ExhaustedUntagged ==
    /\ pc = "loop"
    /\ attempt >= max_attempts(stepIdx)
    /\ Set(EndStep(Cur, FALSE, SkillError("ABORTED", "", 0, 0)))

\* the attempt loop ends without a return: lines 506-511
Exhausted ==
    /\ pc = "loop"
    /\ attempt >= max_attempts(stepIdx)
    /\ Set(EndStep(Cur, FALSE, SkillError("ABORTED", "retry", stepIdx, 0)))

\* the `for handler in handlers` loop of one cycle of
\* _apply_before_step_handlers (lines 523-528), from the i-th handler on
RECURSIVE BeforeHandlers(_, _, _, _, _, _)
BeforeHandlers(hs, envs, i, matched, disp, obs) ==
    IF i > Len(hs)
    THEN [status |-> "ok", matched |-> matched, disp |-> disp, obs |-> obs]
    ELSE LET h == hs[i].h
             matches == h.when = "none" \/ envs[i].when[h.when] = "true"
             eff == _execute_handler_actions(h.actions, envs[i].acts, 1,
                                             cfg.dry_run, disp, obs)
         IN  IF ~matches
             THEN BeforeHandlers(hs, envs, i + 1, matched, disp, obs)
             ELSE IF Raises(eff.status)
             THEN [status |-> eff.status, matched |-> TRUE, disp |-> eff.disp,
                   obs |-> eff.obs]
             ELSE IF ~CaptureReturns(eff.obs)
             THEN [status |-> "IndexError", matched |-> TRUE, disp |-> eff.disp,
                   obs |-> eff.obs]
             ELSE BeforeHandlers(hs, envs, i + 1, TRUE, eff.disp,
                                 Captured(eff.obs))

BeforeCycleWhileMatched ==
    /\ pc = "before"
    /\ LET hs == _collect_handlers(TRUE, skill.steps[stepIdx].on_error,
                                   MergedHandlers, "before_step")
       IN  \E envs \in BeforeEnvs(hs) :
             LET b == BeforeHandlers(hs, envs, 1, FALSE, dispatched, observer)
                 ns == [Cur EXCEPT !.cycles = cycles + 1, !.dispatched = b.disp,
                                   !.observer = b.obs]
             IN  IF b.status # "ok"
                 THEN Set(Raised(ns, b.status))
                 ELSE IF ~b.matched
                 THEN Set([ns EXCEPT !.pc = "guard"])
                 ELSE Set(ns)

\* one cycle of the while loop of _apply_before_step_handlers: lines 520-531
BeforeCycle ==
    /\ pc = "before"
    /\ LET hs == _collect_handlers(TRUE, skill.steps[stepIdx].on_error,
                                   MergedHandlers, "before_step")
       IN  \E envs \in BeforeEnvs(hs) :
             LET b == BeforeHandlers(hs, envs, 1, FALSE, dispatched, observer)
                 ns == [Cur EXCEPT !.cycles = cycles + 1, !.dispatched = b.disp,
                                   !.observer = b.obs]
             IN  IF b.status # "ok"
                 THEN Set(Raised(ns, b.status))
                 ELSE IF ~b.matched \/ cycles + 1 >= max_handler_cycles
                 THEN Set([ns EXCEPT !.pc = "guard"])
                 ELSE Set(ns)

\* the guard of the step: lines 269-330
Guard ==
    /\ pc = "guard"
    /\ \E ps \in PollSeqs :
         /\ IsRun(skill.steps[stepIdx].guard, ps)
         /\ LET chk == _check_condition_block(skill.steps[stepIdx].guard,
                           cfg.strict_preconditions, ps, 1, observer)
                ns == [Cur EXCEPT !.observer = chk.obs]
            IN  IF chk.status = "raise"
                THEN Set(Raised(ns, "IndexError"))
                ELSE IF chk.value = "false"
                THEN FailStep(ns, SkillError("SCREEN_MISMATCH", "guard",
                                             stepIdx, attempt), FALSE)
                ELSE IF chk.value = "unknown" /\ cfg.strict_preconditions
                THEN FailStep(ns, SkillError("PRECONDITION_UNKNOWN", "guard",
                                             stepIdx, attempt), FALSE)
                ELSE Set([ns EXCEPT !.pc = "action"])

ActDryRunDispatches ==
    /\ pc = "action"
    /\ \E env \in ActEnv :
         LET name == skill.steps[stepIdx].action
             sent == [Cur EXCEPT !.dispatched =
                          Append(dispatched, Dispatch("step", name, "", stepIdx,
                                                      attempt, env.exec))]
         IN  IF ~Builds(name, env)
             THEN Set(Raised(Cur, "TypeError"))
             ELSE IF env.exec = "raise"
             THEN FailStep(sent, SkillError("ACTION_EXCEPTION", "action",
                                            stepIdx, attempt), TRUE)
             ELSE IF cfg.dry_run
             THEN Set([sent EXCEPT !.pc = "assert"])
             ELSE IF outcome = Unbound
             THEN Set(Raised(sent, "UnboundLocalError"))
             ELSE Set(Resolve(sent, outcome, error))

\* build and dispatch the action of the step: lines 336-424.  With dry_run
\* off, the verdict code of lines 387-395 sits after the try statement, not in
\* its except clause: it also runs when execute() returned, on whatever
\* `outcome` and `error` an earlier attempt left.
Act ==
    /\ pc = "action"
    /\ \E env \in ActEnv :
         LET name == skill.steps[stepIdx].action
             sent == [Cur EXCEPT !.dispatched =
                          Append(dispatched, Dispatch("step", name, "", stepIdx,
                                                      attempt, env.exec))]
             action_result == IF cfg.dry_run THEN TRUE ELSE env.exec = "ok"
         IN  IF ~Builds(name, env)
             THEN Set(Raised(Cur, "TypeError"))
             ELSE IF cfg.dry_run
             THEN IF ~action_result
                  THEN FailStep(Cur, SkillError("ACTION_FAILED", "action",
                                                stepIdx, attempt), TRUE)
                  ELSE Set([Cur EXCEPT !.pc = "assert"])
             ELSE IF env.exec = "raise"
             THEN FailStep(sent, SkillError("ACTION_EXCEPTION", "action",
                                            stepIdx, attempt), TRUE)
             ELSE IF outcome = Unbound
             THEN Set(Raised(sent, "UnboundLocalError"))
             ELSE Set(Resolve(sent, outcome, error))

\* capture and evaluate the assert of the step: lines 430-504
AssertStep ==
    /\ pc = "assert"
    /\ IF ~CaptureReturns(observer)
       THEN Set(Raised(Cur, "IndexError"))
       ELSE \E ps \in PollSeqs :
              /\ IsRun(skill.steps[stepIdx].assert, ps)
              /\ LET chk == _check_condition_block(skill.steps[stepIdx].assert,
                                cfg.strict_postconditions, ps, 1, Captured(observer))
                     ns == [Cur EXCEPT !.observer = chk.obs]
                 IN  IF chk.status = "raise"
                     THEN Set(Raised(ns, "IndexError"))
                     ELSE IF chk.value = "false"
                             \/ (chk.value = "unknown" /\ cfg.strict_postconditions)
                     THEN FailStep(ns, SkillError("POSTCONDITION_FAILED", "assert",
                                                  stepIdx, attempt), TRUE)
                     ELSE Set(EndStep(Record(ns, TRUE, TRUE, NoError), TRUE, NoError))

PostFailsOnlyOnFalse ==
    /\ pc = "post"
    /\ \E ps \in PollSeqs :
         /\ IsRun(skill.postconditions, ps)
         /\ LET chk == _check_condition_block(skill.postconditions,
                           cfg.strict_postconditions, ps, 1, observer)
                ns == [Cur EXCEPT !.observer = chk.obs,
                                  !.applied.checked = ps[Len(ps)].r]
            IN  IF chk.status = "raise"
                THEN Set(Raised([Cur EXCEPT !.observer = chk.obs], "IndexError"))
                ELSE IF chk.value = "false"
                THEN FailRun(ns, SkillError("POSTCONDITION_FAILED",
                                            "postconditions", 0, 0))
                ELSE Set(Returned(ns, TRUE, NoError))

\* the postconditions and the final return: lines 183-210
Post ==
    /\ pc = "post"
    /\ \E ps \in PollSeqs :
         /\ IsRun(skill.postconditions, ps)
         /\ LET chk == _check_condition_block(skill.postconditions,
                           cfg.strict_postconditions, ps, 1, observer)
                ns == [Cur EXCEPT !.observer = chk.obs,
                                  !.applied.checked = ps[Len(ps)].r]
            IN  IF chk.status = "raise"
                THEN Set(Raised([Cur EXCEPT !.observer = chk.obs], "IndexError"))
                ELSE IF chk.value # "true"
                THEN FailRun(ns, SkillError("POSTCONDITION_FAILED",
                                            "postconditions", 0, 0))
                ELSE Set(Returned(ns, TRUE, NoError))

---------------------------------------------------------------------------
(* The skill definitions and configurations the runner is checked on *)

\* error handlers, as a skill file may declare them
hRetryMore == Handler("on_error", {"SCREEN_MISMATCH"}, {}, "none", "retry",
                      RetrySpec(TRUE, MaxAttempts + 1, FALSE, {}), <<>>, "")
hContinue == Handler("on_error", {}, {}, "w1", "continue", NoRetrySpec,
                     <<"Back">>, "")
hAbort == Handler("on_error", {"ACTION_EXCEPTION", "POSTCONDITION_FAILED"}, {},
                  "none", "abort", NoRetrySpec, <<>>, "")
hEscalate == Handler("on_error", {}, {}, "w2", "escalate", NoRetrySpec,
                     <<"Tap">>, "m1")
hEscalateAll == Handler("on_error", {}, {}, "none", "escalate", NoRetrySpec,
                        <<>>, "")
hIds == Handler("on_error", {}, {"e1"}, "none", "continue", NoRetrySpec, <<>>, "")
hDefault == Handler("on_error", {"SCREEN_MISMATCH", "PRECONDITION_FAILED"}, {},
                    "w1", "", NoRetrySpec, <<"Back">>, "")
hBefore == Handler("before_step", {}, {}, "w1", "", NoRetrySpec, <<"Back">>, "")
hBeforeAlways == Handler("before_step", {}, {}, "none", "", NoRetrySpec, <<>>, "")

\* on_error lists of a step
StepHandlerLists == {<<>>, <<hRetryMore, hContinue>>, <<hIds, hAbort>>,
                     <<hEscalate>>}

\* error_handlers lists of a skill
SkillHandlerLists == {<<>>, <<hDefault, hEscalateAll>>, <<hContinue>>}

RetrySpecs == {NoRetrySpec,
               RetrySpec(TRUE, MaxAttempts, FALSE, {}),
               RetrySpec(TRUE, 0, TRUE, {"SCREEN_MISMATCH"}),
               RetrySpec(TRUE, MaxAttempts, TRUE, {"SCREEN_MISMATCH"})}

Blocks == {NoBlock, Block(TRUE, FALSE, "strict"), Block(TRUE, TRUE, "strict"),
           Block(TRUE, TRUE, "best_effort")}

\* SkillRunnerConfig.default_retry as the dataclass builds it
DefaultRetry == RetryPolicy(1, FALSE, {})

Strict == Block(TRUE, FALSE, "strict")

\* one-step skills over every retry spec and handler list
RetrySkills ==
    {[preconditions |-> NoBlock,
      steps |-> <<Step("Back", o, r, Strict, Strict, hs)>>,
      postconditions |-> NoBlock, error_handlers |-> gs] :
        o \in BOOLEAN, r \in RetrySpecs, hs \in StepHandlerLists,
        gs \in SkillHandlerLists}

\* one-step skills over every kind of condition block, with a tap target
BlockSkills ==
    {[preconditions |-> b,
      steps |-> <<Step("Tap", FALSE, RetrySpec(TRUE, MaxAttempts, FALSE, {}),
                       g, a, <<>>)>>,
      postconditions |-> b, error_handlers |-> gs] :
        b \in {NoBlock, Block(TRUE, TRUE, "strict"),
                Block(TRUE, TRUE, "best_effort")}, g \in Blocks, a \in Blocks,
        gs \in {<<>>, <<hDefault, hEscalateAll>>}}

\* skills of several steps
ShortSteps == {Step("Back", FALSE, NoRetrySpec, Strict, Strict, <<>>),
               Step("Tap", TRUE, NoRetrySpec, Strict, NoBlock, <<hEscalate>>)}

LongSkills ==
    {[preconditions |-> NoBlock, steps |-> st, postconditions |-> Strict,
      error_handlers |-> gs] :
        st \in UNION {[1..n -> ShortSteps] : n \in 2..MaxSteps},
        gs \in {<<>>, <<hContinue>>}}

\* one-step skills with before_step handlers
BeforeSkills ==
    {[preconditions |-> NoBlock,
      steps |-> <<Step("Back", FALSE, NoRetrySpec, Strict, NoBlock, hs)>>,
      postconditions |-> NoBlock, error_handlers |-> <<hBefore, hContinue>>] :
        hs \in {<<>>, <<hBeforeAlways>>}}

SkillDefs == RetrySkills \cup BlockSkills \cup LongSkills \cup BeforeSkills

Configs ==
    {[dry_run |-> d, strict_preconditions |-> sp, strict_postconditions |-> sp,
      default_retry |-> DefaultRetry,
      common_error_handlers |-> <<>>] :
        d \in BOOLEAN, sp \in BOOLEAN}

\* a common error handler (SkillRunnerConfig.common_error_handlers), and the
\* configurations that carry it
hCommon == Handler("on_error", {"SCREEN_MISMATCH", "POSTCONDITION_FAILED"}, {},
                   "none", "abort", NoRetrySpec, <<>>, "")

CommonConfigs ==
    {[dry_run |-> d, strict_preconditions |-> TRUE, strict_postconditions |-> TRUE,
      default_retry |-> DefaultRetry,
      common_error_handlers |-> <<hCommon>>] : d \in BOOLEAN}

\* the one-step skills run under a common handler
CommonSkills ==
    {s \in RetrySkills : ~s.steps[1].optional /\ s.steps[1].retry = NoRetrySpec}

LiveObserver == Observer(FALSE, 0)

PlaybackObservers == {Observer(TRUE, n) : n \in 1..MaxRecords}

\* dicts over Names
Dict(a, b) == [n \in Names |-> IF n = "a" THEN a ELSE b]

\* a skill that requires input a, called with it
GoodCall == Call(TRUE, "dict", Dict(InputMeta(TRUE, FALSE, TRUE), Undeclared),
                 Dict(Absent, "b_var"), Dict("a_given", Absent))

\* the same skill called without a, and a skill the registry does not hold
BadCalls == {Call(TRUE, "dict", Dict(InputMeta(TRUE, FALSE, TRUE), Undeclared),
                  Dict(Absent, "b_var"), Dict(Absent, Absent)),
             Call(FALSE, "dict", Dict(Undeclared, Undeclared),
                  Dict(Absent, Absent), Dict(Absent, Absent))}

NoApplied == [sel |-> NoHandler, error |-> NoError,
              when |-> [w \in WhenConds |-> "unknown"], step |-> 0,
              acts |-> <<>>, before |-> <<>>, checked |-> "none"]

---------------------------------------------------------------------------
(* System2.recover: cota/system2.py, cota/config.py *)

\* COTAConfig.exception_skill_map.get(code); "" is None
_map_error_to_skill(code) ==
    CASE code \in {"SCREEN_MISMATCH", "TARGET_NOT_FOUND"} -> "adapt_ui_change"
      [] code \in {"ACTION_FAILED", "ERROR_SCREEN_DETECTED"} -> "handle_interaction_error"
      [] code \in {"ACTION_EXCEPTION", "DEVICE_ERROR"} -> "handle_device_error"
      [] code \in {"POSTCONDITION_FAILED", "TIMEOUT"} -> "handle_postcondition_error"
      [] OTHER -> ""

\* System2Config.vlm_confidence_threshold (0.65), in hundredths
vlm_confidence_threshold == 65

\* a registered skill as recovery and routing read it: recovery is
\* level == 3 or role == "recovery", shadow is status == "shadow" or
\* routing.shadow is True, score is what _score_skill gives it for the task
SkillEntry(id, recovery, shadow, score) ==
    [id |-> id, recovery |-> recovery, shadow |-> shadow, score |-> score]

\* a skill that is not shadow and that the task does not match
Registered(id, recovery) == SkillEntry(id, recovery, FALSE, 0)

\* SkillRegistry.get(skill_id) is not None
IsRegistered(registry, id) == \E sk \in registry : sk.id = id

\* _list_recovery_skills()
_list_recovery_skills(registry) == {sk.id : sk \in {x \in registry : x.recovery}}

\* what vlm_analyzer.analyze does: raise, return nothing, or return an
\* analysis with a suggested skill ("" is None) and a confidence
Analysis(status, suggested, confidence) ==
    [status |-> status, suggested |-> suggested, confidence |-> confidence]

_analyze_exception_any_confidence(s2, registry, has_observation, an) ==
    IF ~s2.enable_vlm_recovery \/ ~s2.has_analyzer THEN ""
    ELSE IF ~has_observation THEN ""
    ELSE IF an.status # "ok" THEN ""
    ELSE IF an.suggested \in _list_recovery_skills(registry) THEN an.suggested
    ELSE ""

\* _analyze_exception(error, observation): the suggested skill of the
\* analysis it returns, "" when it returns None
_analyze_exception(s2, registry, has_observation, an) ==
    IF ~s2.enable_vlm_recovery \/ ~s2.has_analyzer THEN ""
    ELSE IF ~has_observation THEN ""
    ELSE IF _list_recovery_skills(registry) = {} THEN ""
    ELSE IF an.status # "ok" THEN ""
    ELSE IF an.confidence < vlm_confidence_threshold THEN ""
    ELSE IF an.suggested # "" /\ an.suggested \in _list_recovery_skills(registry)
    THEN an.suggested
    ELSE ""

\* RecoveryDecision(action, step, reason)
RecoveryDecision(action, skill_id, reason) ==
    [action |-> action, skill_id |-> skill_id, reason |-> reason]

\* recover(error, observation)
recover(s2, registry, code, has_observation, an) ==
    LET suggested == _analyze_exception(s2, registry, has_observation, an)
        skill_id == _map_error_to_skill(code)
    IN  IF ~s2.enable_exception_skills
        THEN RecoveryDecision("none", "", "exception_skills_disabled")
        ELSE IF suggested # "" /\ IsRegistered(registry, suggested)
        THEN RecoveryDecision("skill", suggested, "vlm_recovery")
        ELSE IF skill_id # "" /\ IsRegistered(registry, skill_id)
        THEN RecoveryDecision("skill", skill_id, "mapped_exception")
        ELSE RecoveryDecision("none", "", "no_recovery_skill")

---------------------------------------------------------------------------
(* SkillRouter.select: skills/router.py *)

\* SkillRouterConfig.min_score
min_score == 1

\* SkillRouterConfig, as far as select reads it
RouterConfig(enabled, directive, shadow, shadow_exec, enforce, whitelist, on_risk, keywords) ==
    [enabled |-> enabled, allow_directive |-> directive,
     enable_shadow |-> shadow, allow_shadow_execution |-> shadow_exec,
     enforce_skill_whitelist |-> enforce, skill_whitelist |-> whitelist,
     enforce_on_risk |-> on_risk, risk_keywords |-> keywords]

\* SkillRouterConfig(): the defaults
DefaultRouter == RouterConfig(TRUE, TRUE, TRUE, FALSE, FALSE, {}, FALSE, {})

\* a task: the skill id _parse_directive finds in it ("" when it finds no
\* directive) and the words it contains
Task(directive, words) == [directive |-> directive, words |-> words]

\* RoutingDecision(action, directive, reason); skill_id "" is directive None
RoutingDecision(action, skill_id, reason) ==
    [action |-> action, skill_id |-> skill_id, reason |-> reason]

_is_shadow_never(sk) == FALSE

\* _is_shadow(skill.spec)
_is_shadow(sk) == sk.shadow

\* _risk_block(task)
_risk_block(rc, task) ==
    /\ rc.enforce_on_risk
    /\ \E keyword \in rc.risk_keywords : keyword # "" /\ keyword \in task.words

_is_blocked_never(rc, skill_id, task) == FALSE

\* _is_blocked(skill_id, task)
_is_blocked(rc, skill_id, task) ==
    \/ rc.enforce_skill_whitelist /\ skill_id \notin rc.skill_whitelist
    \/ _risk_block(rc, task) /\ skill_id \notin rc.skill_whitelist

\* the candidates the loop over registry.list() collects (lines 71-102)
Candidates(rc, listing) ==
    SelectSeq(listing,
              LAMBDA sk : /\ _is_shadow(sk) =>
                               rc.enable_shadow /\ rc.allow_shadow_execution
                          /\ sk.score >= min_score)

ShadowCandidates(rc, listing) ==
    SelectSeq(listing,
              LAMBDA sk : /\ _is_shadow(sk)
                          /\ rc.enable_shadow
                          /\ sk.score >= min_score)

TopLastOfTies(cands) ==
    LET best == CHOOSE i \in 1..Len(cands) :
                  /\ \A j \in 1..Len(cands) : cands[j].score <= cands[i].score
                  /\ \A j \in (i + 1)..Len(cands) : cands[j].score < cands[i].score
    IN  cands[best]

\* cands.sort(key=score, reverse=True); cands[0]: the sort is stable, so the
\* first of the candidates with the highest score
Top(cands) ==
    LET best == CHOOSE i \in 1..Len(cands) :
                  /\ \A j \in 1..Len(cands) : cands[j].score <= cands[i].score
                  /\ \A j \in 1..(i - 1) : cands[j].score < cands[i].score
    IN  cands[best]

\* select(task, observation)
select(rc, listing, task) ==
    LET found == SelectSeq(listing, LAMBDA sk : sk.id = task.directive)
        candidates == Candidates(rc, listing)
        shadow_candidates == ShadowCandidates(rc, listing)
    IN  IF ~rc.enabled THEN RoutingDecision("none", "", "")
        ELSE IF rc.allow_directive /\ task.directive # ""
        THEN IF _is_blocked(rc, task.directive, task)
             THEN RoutingDecision("block", "", "whitelist-block")
             ELSE IF found # <<>>
             THEN IF _is_shadow(found[1]) /\ ~rc.allow_shadow_execution
                  THEN RoutingDecision("shadow", task.directive, "shadow-directive")
                  ELSE RoutingDecision("skill", task.directive, "inline-directive")
             ELSE RoutingDecision("none", "", "")
        ELSE IF candidates = <<>>
        THEN IF shadow_candidates # <<>>
             THEN RoutingDecision("shadow", Top(shadow_candidates).id, "shadow-match")
             ELSE IF _risk_block(rc, task)
             THEN RoutingDecision("block", "", "risk-requires-skill")
             ELSE RoutingDecision("none", "", "")
        ELSE IF _is_blocked(rc, Top(candidates).id, task)
        THEN RoutingDecision("block", "", "whitelist-block")
        ELSE RoutingDecision("skill", Top(candidates).id, "routing-match")

---------------------------------------------------------------------------
(* COTACoordinator.run: cota/coordinator.py *)

\* PlanStep(kind, skill_id)
PlanStep(kind, skill_id) == [kind |-> kind, skill_id |-> skill_id]

\* Plan(steps, blocked, blocked_reason)
Plan(steps, blocked, reason) ==
    [steps |-> steps, blocked |-> blocked, blocked_reason |-> reason]

plan_shadow_as_skill(s2, rc, listing, task) ==
    LET decision == select(rc, listing, task)
    IN  IF s2.enable_skill_routing /\ s2.has_router /\ decision.action = "block"
        THEN Plan(<<>>, TRUE, decision.reason)
        ELSE IF /\ s2.enable_skill_routing /\ s2.has_router
                /\ decision.action \in {"skill", "shadow"}
                /\ decision.skill_id # ""
        THEN Plan(<<PlanStep("skill", decision.skill_id)>>, FALSE, "")
        ELSE Plan(<<>>, TRUE, "no_skill_match")

\* System2.plan(task, observation): cota/system2.py, lines 44-104
plan(s2, rc, listing, task) ==
    LET decision == select(rc, listing, task)
    IN  IF ~(s2.enable_skill_routing /\ s2.has_router)
        THEN Plan(<<>>, TRUE, "no_skill_match")
        ELSE IF decision.action = "block"
        THEN Plan(<<>>, TRUE, decision.reason)
        ELSE IF decision.action = "shadow" /\ decision.skill_id # ""
        THEN Plan(<<>>, TRUE, "shadow-match")
        ELSE IF decision.action = "skill" /\ decision.skill_id # ""
        THEN Plan(<<PlanStep("skill", decision.skill_id)>>, FALSE, "")
        ELSE Plan(<<>>, TRUE, "no_skill_match")

\* what a call of skill_runner.run gives the coordinator: a SkillRunResult
\* (has_error = FALSE: error None; message "" or a text), or an exception
RunResult(status, success, has_error, code, takeover, message) ==
    [status |-> status, success |-> success, has_error |-> has_error,
     code |-> code, requires_takeover |-> takeover, message |-> message]

NoRun == RunResult("none", FALSE, FALSE, "NONE", FALSE, "")

\* an entry of the coordinator's call history
Event(ev, role, step, skill_id, res) ==
    [ev |-> ev, role |-> role, step |-> step, skill |-> skill_id, result |-> res]

\* `result.message or default`: the text returned and the run it came from
MessageOr(res, default, at) ==
    IF res.message = "" THEN [text |-> default, of |-> 0]
                        ELSE [text |-> res.message, of |-> at]

Fixed(text) == [text |-> text, of |-> 0]

CoReturn(c, ret) == [c EXCEPT !.pc = "done", !.ret = ret]

CoRaise(c) == [c EXCEPT !.pc = "done", !.ret = Fixed("<exception>")]

\* lines 27-36: capture, plan, and the return on a blocked plan
CoPlanned(c, has_observation) ==
    LET c1 == [c EXCEPT !.observation = has_observation]
    IN  IF c.plan.blocked
        THEN IF c.plan.blocked_reason = "no_skill_match"
             THEN CoReturn(c1, Fixed("No matching skill for task"))
             ELSE CoReturn(c1, Fixed("Blocked"))
        ELSE [c1 EXCEPT !.pc = "step", !.idx = 1]

AfterRunIgnoringTakeover(c, res, at) ==
    IF res.success
    THEN [c EXCEPT !.pc = "step", !.idx = c.idx + 1]
    ELSE IF ~res.has_error
    THEN CoReturn(c, MessageOr(res, "Task failed", at))
    ELSE [c EXCEPT !.pc = "recover", !.failed = res, !.failed_at = at]

\* lines 54-64: what follows the run of a SKILL step
AfterRun(c, res, at) ==
    IF res.success
    THEN [c EXCEPT !.pc = "step", !.idx = c.idx + 1]
    ELSE IF ~res.has_error
    THEN CoReturn(c, MessageOr(res, "Task failed", at))
    ELSE IF res.requires_takeover
    THEN CoReturn(c, MessageOr(res, "Manual takeover required", at))
    ELSE [c EXCEPT !.pc = "recover", !.failed = res, !.failed_at = at]

\* lines 64-65, 77-80: what follows System2.recover
AfterRecover(c, decision) ==
    IF decision.action = "skill" /\ decision.skill_id # ""
    THEN [c EXCEPT !.pc = "recovery", !.recovery = decision.skill_id]
    ELSE IF decision.action = "llm"
    THEN CoReturn(c, Fixed("LLM engine is disabled"))
    ELSE CoReturn(c, MessageOr(c.failed, "Task failed", c.failed_at))

AfterRecoveryRunAlwaysRetry(c, res, at) ==
    [c EXCEPT !.pc = "retry"]

\* lines 66-69, 75: what follows the run of the recovery skill
AfterRecoveryRun(c, res, at) ==
    IF res.success
    THEN [c EXCEPT !.pc = "retry"]
    ELSE CoReturn(c, MessageOr(res, "Recovery failed", at))

AfterRetryStop(c, res, at) ==
    IF res.success
    THEN CoReturn(c, Fixed("Task completed"))
    ELSE CoReturn(c, MessageOr(res, "Task failed after recovery", at))

AfterRetryRecoversAgain(c, res, at) ==
    IF res.success
    THEN [c EXCEPT !.pc = "step", !.idx = c.idx + 1]
    ELSE IF res.has_error /\ Len(c.log) < 12
    THEN [c EXCEPT !.pc = "recover", !.failed = res, !.failed_at = at]
    ELSE CoReturn(c, MessageOr(res, "Task failed after recovery", at))

\* lines 70-74: what follows the re-run of the original step
AfterRetry(c, res, at) ==
    IF res.success
    THEN [c EXCEPT !.pc = "step", !.idx = c.idx + 1]
    ELSE CoReturn(c, MessageOr(res, "Task failed after recovery", at))

---------------------------------------------------------------------------
(* COTACoordinator.run: the actions *)

CoCodes == {"TARGET_NOT_FOUND", "ACTION_EXCEPTION", "ABORTED"}

\* the results skill_runner.run can hand back
RunResults ==
    {RunResult("returned", TRUE, FALSE, "NONE", FALSE, "Skill completed")}
    \cup {RunResult("returned", FALSE, FALSE, "NONE", FALSE, m) : m \in {"", "failure"}}
    \cup {RunResult("returned", FALSE, TRUE, c, t, m) :
            c \in CoCodes, t \in BOOLEAN, m \in {"", "failure"}}
    \cup {RunResult("raised", FALSE, FALSE, "NONE", FALSE, "")}

Analyses ==
    {Analysis("raise", "", 0), Analysis("none", "", 0)}
    \cup {Analysis("ok", sk, c) :
            sk \in {"", "fix_dialog", "adapt_ui_change", "ghost"}, c \in {50, 65}}

SetCo(c) == co' = c /\ UNCHANGED runnerVars

Logged(c, e) == [c EXCEPT !.log = Append(@, e)]

\* the decision System2.plan read from the router, when it asked the router
Routed(c) ==
    IF c.planner = "system2" /\ c.s2.enable_skill_routing /\ c.s2.has_router
    THEN select(c.router, c.listing, c.task)
    ELSE RoutingDecision("unrouted", "", "")

\* lines 30-36: system2.plan(task, observation) is System2.plan, or the plan
\* of a planner handed to the coordinator
CoStart ==
    /\ co.pc = "start"
    /\ \E cap \in BOOLEAN :
         LET c == IF co.planner = "system2"
                  THEN [co EXCEPT !.plan = plan(co.s2, co.router, co.listing,
                                                co.task),
                                  !.decision = Routed(co)]
                  ELSE co
         IN  SetCo(CoPlanned(c, cap))

\* line 82: the loop over plan.steps is over
CoFinish ==
    /\ co.pc = "step"
    /\ co.idx > Len(co.plan.steps)
    /\ SetCo(CoReturn(co, Fixed("Task completed")))

\* lines 39-40
CoLLM ==
    /\ co.pc = "step"
    /\ co.idx <= Len(co.plan.steps)
    /\ co.plan.steps[co.idx].kind = "llm"
    /\ SetCo(CoReturn(co, Fixed("LLM engine is disabled")))

\* lines 42-48: execute_intent returns None, or an ActionResult
CoIntent ==
    /\ co.pc = "step"
    /\ co.idx <= Len(co.plan.steps)
    /\ co.plan.steps[co.idx].kind = "intent"
    /\ \E r \in {"none", "ok", "failed"}, cap \in BOOLEAN :
         LET res == RunResult(r, r = "ok", FALSE, "NONE", FALSE, "")
             c == Logged(co, Event("intent", "step", co.idx, "", res))
         IN  IF r = "none"
             THEN SetCo(CoReturn(c, Fixed("Intent execution failed")))
             ELSE SetCo([c EXCEPT !.idx = co.idx + 1, !.observation = cap])

\* lines 50-64: the run of a SKILL step
CoSkill ==
    /\ co.pc = "step"
    /\ co.idx <= Len(co.plan.steps)
    /\ co.plan.steps[co.idx].kind = "skill"
    /\ IF ~co.has_runner
       THEN SetCo(CoReturn(co, Fixed("Skill runner not configured")))
       ELSE \E res \in RunResults, cap \in BOOLEAN :
              LET c == Logged(co, Event("run", "step", co.idx,
                                        co.plan.steps[co.idx].skill_id, res))
                  c1 == AfterRun(c, res, Len(c.log))
              IN  /\ (~res.success => cap)
                  /\ IF res.status = "raised"
                     THEN SetCo(CoRaise(c))
                     ELSE SetCo(IF res.success
                                THEN [c1 EXCEPT !.observation = cap] ELSE c1)

\* line 64: system2.recover(result.error, observation)
CoRecover ==
    /\ co.pc = "recover"
    /\ \E an \in Analyses :
         LET d == recover(co.s2, co.registry, co.failed.code, co.observation, an)
             c == Logged(co, Event("recover", d.action, co.idx, d.skill_id, NoRun))
         IN  SetCo(AfterRecover(c, d))

\* lines 66-69, 75: the run of the recovery skill
CoRecoveryRun ==
    /\ co.pc = "recovery"
    /\ \E res \in RunResults :
         LET c == Logged(co, Event("run", "recovery", co.idx, co.recovery, res))
         IN  IF res.status = "raised"
             THEN SetCo(CoRaise(c))
             ELSE SetCo(AfterRecoveryRun(c, res, Len(c.log)))

\* lines 70-74: the re-run of the original step
CoRetry ==
    /\ co.pc = "retry"
    /\ \E res \in RunResults, cap \in BOOLEAN :
         LET c == Logged(co, Event("run", "retry", co.idx,
                                   co.plan.steps[co.idx].skill_id, res))
             c1 == AfterRetry(c, res, Len(c.log))
         IN  /\ (~res.success => cap)
             /\ IF res.status = "raised"
                THEN SetCo(CoRaise(c))
                ELSE SetCo(IF res.success
                           THEN [c1 EXCEPT !.observation = cap] ELSE c1)

\* the plans System2.plan may hand to the coordinator
PlanSteps == {PlanStep("skill", "main"), PlanStep("skill", "other"),
              PlanStep("intent", ""), PlanStep("llm", "")}

Plans ==
    {Plan(<<>>, TRUE, r) : r \in {"no_skill_match", "whitelist-block"}}
    \cup {Plan(st, FALSE, "") :
            st \in UNION {[1..n -> PlanSteps] : n \in 1..MaxPlanSteps}}

Registries ==
    {{Registered("main", FALSE)},
     {Registered("main", FALSE), Registered("adapt_ui_change", TRUE)},
     {Registered("main", FALSE), Registered("adapt_ui_change", FALSE),
      Registered("fix_dialog", TRUE)}}

System2Configs ==
    {[enable_exception_skills |-> e, enable_vlm_recovery |-> v,
      has_analyzer |-> TRUE, enable_skill_routing |-> TRUE, has_router |-> TRUE] :
        e \in BOOLEAN, v \in BOOLEAN}

\* System2 without routing: enable_skill_routing off, or no router
Unrouted ==
    {[enable_exception_skills |-> TRUE, enable_vlm_recovery |-> FALSE,
      has_analyzer |-> TRUE, enable_skill_routing |-> e, has_router |-> ~e] :
        e \in BOOLEAN}

\* the registry in the order of registry.list(), with the scores of the task
Listings ==
    {<<SkillEntry("main", FALSE, FALSE, 1), SkillEntry("draft", FALSE, TRUE, 2)>>,
     <<SkillEntry("draft", FALSE, TRUE, 1), SkillEntry("main", FALSE, FALSE, 0),
       SkillEntry("adapt_ui_change", TRUE, TRUE, 0)>>,
     <<SkillEntry("main", FALSE, FALSE, 2), SkillEntry("other", FALSE, FALSE, 2),
       SkillEntry("adapt_ui_change", TRUE, FALSE, 0),
       SkillEntry("fix_dialog", TRUE, TRUE, 0)>>}

Range(seq) == {seq[i] : i \in DOMAIN seq}

Tasks ==
    {Task(d, w) : d \in {"", "main", "draft", "ghost"}, w \in {{}, {"pay"}}}

\* every router configuration over one whitelist and one risk keyword
RouterConfigs ==
    {RouterConfig(en, ad, es, ase, ew, wl, er, {"pay"}) :
        en \in BOOLEAN, ad \in BOOLEAN, es \in BOOLEAN, ase \in BOOLEAN,
        ew \in BOOLEAN, wl \in {{}, {"main"}}, er \in BOOLEAN}

\* the router configurations the coordinator is checked on
CoRouterConfigs ==
    {rc \in RouterConfigs : /\ rc.enabled /\ rc.enable_shadow
                            /\ rc.enforce_on_risk = rc.enforce_skill_whitelist}
    \cup {[DefaultRouter EXCEPT !.enabled = FALSE]}

\* a coordinator about to run
Coordinator(planner, p, s2, listing, registry, rc, task, has_runner) ==
    [pc |-> "start", plan |-> p, idx |-> 0, observation |-> FALSE,
     failed |-> NoRun, failed_at |-> 0, recovery |-> "", log |-> <<>>,
     ret |-> Fixed(""), s2 |-> s2, registry |-> registry,
     has_runner |-> has_runner, planner |-> planner, router |-> rc,
     listing |-> listing, task |-> task,
     decision |-> RoutingDecision("unrouted", "", "")]

\* coordinators over a planner that hands them a plan of its own
GivenPlans ==
    {Coordinator("given", p, c, <<>>, r, DefaultRouter, Task("", {}), h) :
       p \in Plans, c \in System2Configs, r \in Registries, h \in BOOLEAN}

\* coordinators over System2.plan
RoutedPlans ==
    {Coordinator("system2", Plan(<<>>, TRUE, ""), c, l, Range(l), rc, t, TRUE) :
       c \in System2Configs, l \in Listings, rc \in CoRouterConfigs, t \in Tasks}
    \cup {Coordinator("system2", Plan(<<>>, TRUE, ""), c, l, Range(l),
                      DefaultRouter, t, TRUE) :
            c \in Unrouted, l \in Listings, t \in Tasks}

CoInit ==
    /\ co \in GivenPlans \cup RoutedPlans
    /\ co.has_runner \/ (co.s2.enable_exception_skills /\ co.s2.enable_vlm_recovery)
    /\ cfg \in {c \in Configs : ~c.dry_run /\ c.strict_preconditions}
    /\ skill \in {sk \in BeforeSkills : sk.steps[1].on_error = <<>>}
    /\ call = GoodCall
    /\ observer = LiveObserver
    /\ pc = "idle"
    /\ stepIdx = 0
    /\ attempt = 0
    /\ outcome = Unbound
    /\ error = NoError
    /\ cycles = 0
    /\ report = <<>>
    /\ dispatched = <<>>
    /\ result = NoResult
    /\ applied = NoApplied

CoNext ==
    \/ CoStart
    \/ CoFinish
    \/ CoLLM
    \/ CoIntent
    \/ CoSkill
    \/ CoRecover
    \/ CoRecoveryRun
    \/ CoRetry

CoordSpec == CoInit /\ [][CoNext]_vars

---------------------------------------------------------------------------
(* The specification of SkillRouter.select *)

\* a router over a registry, handed a task
RouterInit ==
    /\ co \in {[pc |-> "route", router |-> rc, listing |-> l, task |-> t,
                decision |-> RoutingDecision("unrouted", "", "")] :
                 rc \in RouterConfigs, l \in Listings, t \in Tasks}
    /\ cfg \in {c \in Configs : ~c.dry_run /\ c.strict_preconditions}
    /\ skill \in {sk \in BeforeSkills : sk.steps[1].on_error = <<>>}
    /\ call = GoodCall
    /\ observer = LiveObserver
    /\ pc = "idle"
    /\ stepIdx = 0
    /\ attempt = 0
    /\ outcome = Unbound
    /\ error = NoError
    /\ cycles = 0
    /\ report = <<>>
    /\ dispatched = <<>>
    /\ result = NoResult
    /\ applied = NoApplied

\* select(task, observation)
RouteSelect ==
    /\ co.pc = "route"
    /\ SetCo([co EXCEPT !.pc = "routed",
                        !.decision = select(co.router, co.listing, co.task)])

RouterSpec == RouterInit /\ [][RouteSelect]_vars

\* select went down the scoring path: no directive was parsed from the task
ScoringPath ==
    /\ co.pc = "routed"
    /\ co.router.enabled
    /\ ~(co.router.allow_directive /\ co.task.directive # "")

\* the i-th registered skill is a candidate: it reaches min_score and is not
\* held back as a shadow skill
Candidate(i) ==
    /\ co.listing[i].score >= min_score
    /\ co.listing[i].shadow =>
          co.router.enable_shadow /\ co.router.allow_shadow_execution

\* the i-th registered skill is the first, in registration order, of the
\* candidates with the highest score
Winner(i) ==
    /\ Candidate(i)
    /\ \A j \in DOMAIN co.listing :
          Candidate(j) => co.listing[j].score <= co.listing[i].score
    /\ \A j \in 1..(i - 1) :
          Candidate(j) => co.listing[j].score < co.listing[i].score

\* C28: on the scoring path the skill select returns is the candidate with
\* the highest score among the skills reaching min_score, and among several
\* of the highest score the one registered first; as long as there is a
\* candidate no other decision is made, except that the winner is blocked.
C28_HighestScoreWins ==
    ScoringPath =>
        /\ co.decision.action = "skill" =>
              \E i \in DOMAIN co.listing :
                  Winner(i) /\ co.decision.skill_id = co.listing[i].id
        /\ (\E i \in DOMAIN co.listing : Candidate(i)) =>
              co.decision.action \in {"skill", "block"}

\* two candidates share the highest score and the one registered first was
\* selected
C28_Witness ==
    /\ ScoringPath
    /\ co.decision.action = "skill"
    /\ \E i, j \in DOMAIN co.listing :
          /\ i < j
          /\ Winner(i)
          /\ Candidate(j)
          /\ co.listing[j].score = co.listing[i].score
          /\ co.decision.skill_id = co.listing[i].id

\* the registered skill of the given id is marked shadow
ShadowId(id) == \E i \in DOMAIN co.listing :
                    co.listing[i].id = id /\ co.listing[i].shadow

\* C13: with allow_shadow_execution off, select never returns action "skill"
\* with the id of a skill marked shadow, whether the id came from a directive
\* in the task or from scoring.
C13_ShadowNeverSelected ==
    (co.pc = "routed" /\ ~co.router.allow_shadow_execution
        /\ co.decision.action = "skill")
        => ~ShadowId(co.decision.skill_id)

\* scoring chose the plain skill although a shadow skill scored higher
C13_Witness ==
    /\ co.pc = "routed"
    /\ ~co.router.allow_shadow_execution
    /\ co.router.enable_shadow
    /\ co.task.directive = ""
    /\ co.listing[2].shadow /\ co.listing[2].score > co.listing[1].score
    /\ co.decision.action = "skill"
    /\ co.decision.skill_id = co.listing[1].id

\* the task contains one of the configured risk keywords
RiskTask == \E keyword \in co.router.risk_keywords : keyword \in co.task.words

\* C15: when whitelist enforcement is on, or risk gating is on and the task
\* contains a risk keyword, select returns action "skill" only with an id of
\* the whitelist, from a directive as well as from scoring.
C15_OnlyWhitelistedSelected ==
    (co.pc = "routed" /\ co.decision.action = "skill"
        /\ (co.router.enforce_skill_whitelist
              \/ (co.router.enforce_on_risk /\ RiskTask)))
        => co.decision.skill_id \in co.router.skill_whitelist

\* under risk gating alone, scoring chose a whitelisted skill for a task
\* with a risk keyword
C15_Witness ==
    /\ co.pc = "routed"
    /\ ~co.router.enforce_skill_whitelist
    /\ co.router.enforce_on_risk /\ RiskTask
    /\ co.task.directive = ""
    /\ co.decision.action = "skill"
    /\ co.decision.skill_id = "main"
    /\ co.decision.reason = "routing-match"

---------------------------------------------------------------------------
(* evaluate_condition: skills/conditions.py *)

MaxChildren == 2

\* a condition spec: None, a test of the observation (with what the test
\* gives on the observation at hand), or a combinator over child specs
NoneSpec == [op |-> "none", v |-> "", kids |-> <<>>]

Test(v) == [op |-> "test", v |-> v, kids |-> <<>>]

Combined(op, kids) == [op |-> op, v |-> "", kids |-> kids]

\* lines 63-67: the value of `all` from the results of its children
all_of(results) ==
    IF \E i \in DOMAIN results : results[i] = "false" THEN "false"
    ELSE IF \E i \in DOMAIN results : results[i] = "unknown" THEN "unknown"
    ELSE "true"

any_of_two_valued(results) ==
    IF \E i \in DOMAIN results : results[i] = "true" THEN "true" ELSE "false"

\* lines 71-75: the value of `any` from the results of its children
any_of(results) ==
    IF \E i \in DOMAIN results : results[i] = "true" THEN "true"
    ELSE IF \A i \in DOMAIN results : results[i] = "false" THEN "false"
    ELSE "unknown"

\* lines 79-81: the value of `not` from the result of its child
not_of(r) ==
    IF r = "unknown" THEN "unknown"
    ELSE IF r = "true" THEN "false" ELSE "true"

RECURSIVE evaluate_condition(_)
\* evaluate_condition(spec, observation)
evaluate_condition(spec) ==
    IF spec.op = "none" THEN "true"
    ELSE IF spec.op = "all"
    THEN all_of([i \in DOMAIN spec.kids |-> evaluate_condition(spec.kids[i])])
    ELSE IF spec.op = "any"
    THEN any_of([i \in DOMAIN spec.kids |-> evaluate_condition(spec.kids[i])])
    ELSE IF spec.op = "not"
    THEN not_of(evaluate_condition(spec.kids[1]))
    ELSE spec.v

\* the tests, with every value one can have on an observation
Tests == {Test(v) : v \in Tri}

SeqsUpTo(S, n) == UNION {[1..k -> S] : k \in 0..n}

\* the combinators over the specs of S: `all` and `any` over lists of up to
\* MaxChildren children, `not` over one child
Over(S) ==
    {Combined(op, kids) : op \in {"all", "any"}, kids \in SeqsUpTo(S, MaxChildren)}
    \cup {Combined("not", <<k>>) : k \in S \cup {NoneSpec}}

\* combinators over tests, and combinators of two children over those
Flat == Tests \cup Over(Tests)

Nested ==
    {Combined(op, <<a, b>>) : op \in {"all", "any"}, a \in Flat, b \in Flat}
    \cup {Combined("not", <<k>>) : k \in Over(Tests)}

ConditionSpecs == {NoneSpec} \cup Flat \cup Nested

CondInit ==
    /\ co \in {[pc |-> "condition", spec |-> s, value |-> ""] :
                 s \in ConditionSpecs}
    /\ cfg \in {c \in Configs : ~c.dry_run /\ c.strict_preconditions}
    /\ skill \in {sk \in BeforeSkills : sk.steps[1].on_error = <<>>}
    /\ call = GoodCall
    /\ observer = LiveObserver
    /\ pc = "idle"
    /\ stepIdx = 0
    /\ attempt = 0
    /\ outcome = Unbound
    /\ error = NoError
    /\ cycles = 0
    /\ report = <<>>
    /\ dispatched = <<>>
    /\ result = NoResult
    /\ applied = NoApplied

\* a call of evaluate_condition(spec, observation)
Evaluate ==
    /\ co.pc = "condition"
    /\ SetCo([co EXCEPT !.pc = "evaluated", !.value = evaluate_condition(co.spec)])

CondSpec == CondInit /\ [][Evaluate]_vars

\* false < unknown < true
Rank(v) == CASE v = "false" -> 0 [] v = "unknown" -> 1 [] v = "true" -> 2

Min(a, b) == IF a <= b THEN a ELSE b

RECURSIVE Least(_, _)
Least(ranks, n) == IF n = 0 THEN 2 ELSE Min(ranks[n], Least(ranks, n - 1))

RECURSIVE Greatest(_, _)
Greatest(ranks, n) == IF n = 0 THEN 0 ELSE Max(ranks[n], Greatest(ranks, n - 1))

\* the three-valued table: `all` is the least of its children, `any` the
\* greatest, `not` mirrors its child around unknown
RECURSIVE Kleene(_)
Kleene(spec) ==
    LET ranks == [i \in DOMAIN spec.kids |-> Kleene(spec.kids[i])]
    IN  CASE spec.op = "none" -> 2
          [] spec.op = "test" -> Rank(spec.v)
          [] spec.op = "all" -> Least(ranks, Len(spec.kids))
          [] spec.op = "any" -> Greatest(ranks, Len(spec.kids))
          [] spec.op = "not" -> 2 - ranks[1]

\* C16: evaluate_condition follows the three-valued table: `all` is false
\* if any child is false, else unknown if any child is unknown, else true;
\* `any` is true if any child is true, else false if every child is false,
\* else unknown; `not` swaps true and false and keeps unknown; for every
\* combination of child values and through nested combinators.
C16_ThreeValued ==
    co.pc = "evaluated"
        => /\ co.value \in Tri
           /\ Rank(co.value) = Kleene(co.spec)
           /\ co.spec.op = "all" =>
                co.value = IF \E i \in DOMAIN co.spec.kids :
                                 Kleene(co.spec.kids[i]) = 0 THEN "false"
                           ELSE IF \E i \in DOMAIN co.spec.kids :
                                 Kleene(co.spec.kids[i]) = 1 THEN "unknown"
                           ELSE "true"
           /\ co.spec.op = "any" =>
                co.value = IF \E i \in DOMAIN co.spec.kids :
                                 Kleene(co.spec.kids[i]) = 2 THEN "true"
                           ELSE IF \A i \in DOMAIN co.spec.kids :
                                 Kleene(co.spec.kids[i]) = 0 THEN "false"
                           ELSE "unknown"

\* an `any` over an unknown `all` and a false `not` was evaluated: unknown
C16_Witness ==
    /\ co.pc = "evaluated"
    /\ co.spec = Combined("any", <<Combined("all", <<Test("true"), Test("unknown")>>),
                                   Combined("not", <<Test("true")>>)>>)
    /\ co.value = "unknown"

---------------------------------------------------------------------------
(* The specification of SkillRunner._check_condition_block *)

\* a block, the strict flag of the caller, the passes of the polling loop as
\* the environment decides them, and the observation provider
BlockInit ==
    /\ co \in {[pc |-> "block", block |-> b, strict |-> s, polls |-> ps,
                obs |-> o, status |-> "", value |-> ""] :
                 b \in Blocks, s \in BOOLEAN, ps \in PollSeqs,
                 o \in {LiveObserver} \cup PlaybackObservers}
    /\ IsRun(co.block, co.polls)
    /\ cfg \in {c \in Configs : ~c.dry_run /\ c.strict_preconditions}
    /\ skill \in {sk \in BeforeSkills : sk.steps[1].on_error = <<>>}
    /\ call = GoodCall
    /\ observer = LiveObserver
    /\ pc = "idle"
    /\ stepIdx = 0
    /\ attempt = 0
    /\ outcome = Unbound
    /\ error = NoError
    /\ cycles = 0
    /\ report = <<>>
    /\ dispatched = <<>>
    /\ result = NoResult
    /\ applied = NoApplied

\* _check_condition_block(block, observation, stage, strict)
CheckBlock ==
    /\ co.pc = "block"
    /\ LET chk == _check_condition_block(co.block, co.strict, co.polls, 1, co.obs)
       IN  SetCo([co EXCEPT !.pc = "checked", !.status = chk.status,
                            !.value = chk.value, !.obs = chk.obs])

BlockSpec == BlockInit /\ [][CheckBlock]_vars

\* the pass of the polling loop on which it returned
LastPoll == co.polls[Len(co.polls)]

\* C17: for a block with a polling timeout, when the condition is still
\* unknown at the deadline the block counts as failed in mode strict and as
\* satisfied in mode best_effort; and in both modes the loop goes on
\* re-capturing and polling while the condition is unknown and the deadline
\* has not passed.
C17_UnknownAtDeadline ==
    (co.pc = "checked" /\ co.status = "ok" /\ co.block.present /\ co.block.timeout)
        => /\ (LastPoll.r = "unknown" /\ LastPoll.late) =>
                 /\ co.block.mode = "strict" => co.value # "true"
                 /\ co.block.mode = "best_effort" => co.value = "true"
           /\ LastPoll.r = "unknown" => LastPoll.late

\* C17, amended: for a block with a polling timeout, a condition still
\* unknown at the deadline in mode strict counts as failed when the caller's
\* strict flag (strict_preconditions / strict_postconditions) is on and as
\* satisfied when it is off; in mode best_effort an unknown condition counts
\* as satisfied on the pass that finds it, deadline or not; the loop
\* otherwise returns only on a true condition or a passed deadline, after
\* one re-capture between any two passes.
C17_Amended ==
    (co.pc = "checked" /\ co.status = "ok" /\ co.block.present /\ co.block.timeout)
        => /\ (LastPoll.r = "unknown" /\ co.block.mode = "strict") =>
                 /\ LastPoll.late
                 /\ co.value = IF co.strict THEN "unknown" ELSE "true"
           /\ (LastPoll.r = "unknown" /\ co.block.mode = "best_effort") =>
                 co.value = "true"
           /\ LastPoll.r = "false" => LastPoll.late /\ co.value = "false"
           /\ LastPoll.r = "true" => co.value = "true"
           /\ co.obs.playback => co.obs.index = Len(co.polls) - 1

\* strict mode with the strict flag off: unknown on the first pass, still
\* unknown at the deadline after a re-capture, and the block is satisfied
C17_Witness ==
    /\ co.pc = "checked" /\ co.status = "ok"
    /\ co.block = Block(TRUE, TRUE, "strict")
    /\ ~co.strict
    /\ co.polls = <<[r |-> "unknown", late |-> FALSE], [r |-> "unknown", late |-> TRUE]>>
    /\ co.obs.playback /\ co.obs.index = 1
    /\ co.value = "true"

---------------------------------------------------------------------------
(* Backoff: runner.py _backoff, utils.py sleep_with_backoff *)

MaxBackoff == 3

MaxJitter == 2

\* the backoff fields of a RetryPolicy; the multiplier is held in halves
\* (2 is 1.0, 3 is 1.5, 4 is 2.0)
BackoffPolicy(backoff_ms, halves, max_backoff_ms, jitter_ms) ==
    [backoff_ms |-> backoff_ms, backoff_multiplier |-> halves,
     max_backoff_ms |-> max_backoff_ms, jitter_ms |-> jitter_ms]

RECURSIVE Power(_, _)
Power(b, n) == IF n = 0 THEN 1 ELSE b * Power(b, n - 1)

\* int(base_ms * (multiplier ** max(0, attempt - 1)))
Scaled(base_ms, halves, att) ==
    LET n == Max(0, att - 1)
    IN  (base_ms * Power(halves, n)) \div Power(2, n)

\* sleep_with_backoff(attempt, base_ms, multiplier, max_ms, jitter_ms): the
\* delay slept, in ms, when random.randint(0, jitter_ms) gives `drawn`
sleep_with_backoff(att, base_ms, halves, max_ms, jitter_ms, drawn) ==
    LET delay == IF Scaled(base_ms, halves, att) <= max_ms
                 THEN Scaled(base_ms, halves, att) ELSE max_ms
    IN  IF jitter_ms > 0 THEN delay + drawn ELSE delay

\* a retry policy and the attempt that just failed
BackoffInit ==
    /\ co \in {[pc |-> "backoff", policy |-> BackoffPolicy(b, m, mx, j),
                attempt |-> k, delay |-> 0] :
                 b \in 0..MaxBackoff, m \in {2, 3, 4}, mx \in 0..MaxBackoff,
                 j \in 0..MaxJitter, k \in 1..MaxAttempts}
    /\ cfg \in {c \in Configs : ~c.dry_run /\ c.strict_preconditions}
    /\ skill \in {sk \in BeforeSkills : sk.steps[1].on_error = <<>>}
    /\ call = GoodCall
    /\ observer = LiveObserver
    /\ pc = "idle"
    /\ stepIdx = 0
    /\ attempt = 0
    /\ outcome = Unbound
    /\ error = NoError
    /\ cycles = 0
    /\ report = <<>>
    /\ dispatched = <<>>
    /\ result = NoResult
    /\ applied = NoApplied

\* _backoff(attempt, retry_policy)
Backoff ==
    /\ co.pc = "backoff"
    /\ IF co.policy.backoff_ms <= 0
       THEN SetCo([co EXCEPT !.pc = "skipped"])
       ELSE \E drawn \in 0..co.policy.jitter_ms :
              SetCo([co EXCEPT
                       !.pc = "slept",
                       !.delay = sleep_with_backoff(
                                    co.attempt, co.policy.backoff_ms,
                                    co.policy.backoff_multiplier,
                                    IF co.policy.max_backoff_ms # 0
                                    THEN co.policy.max_backoff_ms
                                    ELSE co.policy.backoff_ms,
                                    co.policy.jitter_ms, drawn)])

BackoffSpec == BackoffInit /\ [][Backoff]_vars

\* C20: for every retry policy with backoff_ms > 0 and every attempt, the
\* delay slept before the next attempt (the scaled base delay plus the
\* drawn jitter) never exceeds max_backoff_ms.
C20_DelayCapped ==
    (co.pc = "slept" /\ co.policy.backoff_ms > 0)
        => co.delay <= co.policy.max_backoff_ms

---------------------------------------------------------------------------
(* PlaybackObservationProvider: skills/observation.py *)

MaxFiles == 4

MaxCaptures == 6

\* the obs_*.json files a playback directory may hold, each named by its
\* rank in path order
Files == 1..MaxFiles

\* what playback_dir.glob("obs_*.json") may yield: the files of the
\* directory, each once, in any order
Globs ==
    {g \in UNION {[1..n -> Files] : n \in 0..MaxFiles} :
        \A i, j \in DOMAIN g : i # j => g[i] # g[j]}

RECURSIVE Insert(_, _)
Insert(x, s) ==
    IF s = <<>> THEN <<x>>
    ELSE IF x <= Head(s) THEN <<x>> \o s
    ELSE <<Head(s)>> \o Insert(x, Tail(s))

sorted_as_globbed(s) == s

RECURSIVE InsertAll(_, _)
InsertAll(s, acc) ==
    IF s = <<>> THEN acc ELSE InsertAll(Tail(s), Insert(Head(s), acc))

\* sorted(paths)
sorted(s) == InsertAll(s, <<>>)

\* a capture() call of the history: the recording it returned, or 0 and
\* raised = TRUE for the IndexError
CaptureCall(returned, raised) == [returned |-> returned, raised |-> raised]

PlaybackInit ==
    /\ co \in {[pc |-> "new", glob |-> g, records |-> <<>>, index |-> 0,
                log |-> <<>>] : g \in Globs}
    /\ cfg \in {c \in Configs : ~c.dry_run /\ c.strict_preconditions}
    /\ skill \in {sk \in BeforeSkills : sk.steps[1].on_error = <<>>}
    /\ call = GoodCall
    /\ observer = LiveObserver
    /\ pc = "idle"
    /\ stepIdx = 0
    /\ attempt = 0
    /\ outcome = Unbound
    /\ error = NoError
    /\ cycles = 0
    /\ report = <<>>
    /\ dispatched = <<>>
    /\ result = NoResult
    /\ applied = NoApplied

\* PlaybackObservationProvider.__init__(playback_dir)
PlaybackNew ==
    /\ co.pc = "new"
    /\ LET records == sorted(co.glob)
       IN  IF records = <<>>
           THEN SetCo([co EXCEPT !.pc = "ValueError"])
           ELSE SetCo([co EXCEPT !.pc = "ready", !.records = records,
                                 !.index = 0])

\* PlaybackObservationProvider.capture()
PlaybackCapture ==
    /\ co.pc = "ready"
    /\ Len(co.log) < MaxCaptures
    /\ IF co.index >= Len(co.records)
       THEN SetCo([co EXCEPT !.log = Append(@, CaptureCall(0, TRUE))])
       ELSE SetCo([co EXCEPT !.index = @ + 1,
                             !.log = Append(@, CaptureCall(co.records[co.index + 1],
                                                           FALSE))])

PlaybackSpec == PlaybackInit /\ [][PlaybackNew \/ PlaybackCapture]_vars

\* the recordings of the directory
Recordings == {co.glob[i] : i \in DOMAIN co.glob}

\* the k-th recording in path order
Kth(k) == CHOOSE f \in Recordings : Cardinality({g \in Recordings : g <= f}) = k

\* C25: over n recordings the k-th capture call returns the k-th recording
\* in sorted path order for 1 <= k <= n and raises for every k > n; the
\* replay index never exceeds n; and the construction over a directory
\* without recordings fails.
C25_PlaybackInOrder ==
    LET n == Cardinality(Recordings)
    IN  /\ co.pc # "new" => (co.pc = "ValueError" <=> n = 0)
        /\ co.index <= n
        /\ \A k \in DOMAIN co.log :
              IF k <= n
              THEN ~co.log[k].raised /\ co.log[k].returned = Kth(k)
              ELSE co.log[k].raised

\* a directory globbed out of path order was replayed to its end and two
\* more captures raised
C25_Witness ==
    /\ co.pc = "ready"
    /\ Len(co.glob) >= 3
    /\ co.glob[1] > co.glob[2]
    /\ co.index = Len(co.glob)
    /\ Len(co.log) = Len(co.glob) + 2
    /\ co.log[Len(co.log)].raised
    /\ ~co.log[Len(co.glob)].raised

---------------------------------------------------------------------------
(* ClusterRunner.run: cluster.py *)

MaxEndpoints == 3

\* DeviceEndpoint(device_type, device_id, wda_url); "" stands for None
DeviceEndpoint(device_type, device_id, wda_url) ==
    [device_type |-> device_type, device_id |-> device_id, wda_url |-> wda_url]

\* the devices a cluster is built over: an Android device by its id, the
\* default Android device, an iOS device by its WDA url, the default iOS device
Endpoints == {DeviceEndpoint("adb", "d1", ""), DeviceEndpoint("adb", "", ""),
              DeviceEndpoint("ios", "", "u1"), DeviceEndpoint("ios", "", "")}

\* key = endpoint.device_id or endpoint.wda_url or "unknown"
KeyOf(endpoint) ==
    IF endpoint.device_id # "" THEN endpoint.device_id
    ELSE IF endpoint.wda_url # "" THEN endpoint.wda_url
    ELSE "unknown"

\* what happens inside _run_on_endpoint for one endpoint: the agent is built
\* and its run returns, or the constructor raises, or the run raises
Fates == {"ok", "construct_raises", "run_raises"}

\* an entry of the results map: the endpoint (by position) it came from and
\* whether it is the text the agent returned or `error: ...`
Result(i, is_error) == [of |-> i, is_error |-> is_error]

Cluster(endpoints, fates, parallel) ==
    [pc |-> "start", endpoints |-> endpoints, fates |-> fates,
     parallel |-> parallel, submitted |-> 0,
     worker |-> [i \in DOMAIN endpoints |-> "none"],
     collected |-> {}, results |-> <<>>, keys |-> {}]

Clusters ==
    {Cluster(e, f, p) :
        e \in {s \in UNION {[1..n -> Endpoints] : n \in 1..MaxEndpoints} :
                 \A i, j \in DOMAIN s : i # j => s[i] # s[j]},
        f \in UNION {[1..n -> Fates] : n \in 1..MaxEndpoints},
        p \in BOOLEAN}

ClusterInit ==
    /\ co \in {c \in Clusters : DOMAIN c.endpoints = DOMAIN c.fates}
    /\ cfg \in {c \in Configs : ~c.dry_run /\ c.strict_preconditions}
    /\ skill \in {sk \in BeforeSkills : sk.steps[1].on_error = <<>>}
    /\ call = GoodCall
    /\ observer = LiveObserver
    /\ pc = "idle"
    /\ stepIdx = 0
    /\ attempt = 0
    /\ outcome = Unbound
    /\ error = NoError
    /\ cycles = 0
    /\ report = <<>>
    /\ dispatched = <<>>
    /\ result = NoResult
    /\ applied = NoApplied

\* results[key] = value
Store(c, i, is_error) ==
    LET key == KeyOf(c.endpoints[i])
    IN  [c EXCEPT !.results = [k \in c.keys \cup {key} |->
                                  IF k = key THEN Result(i, is_error)
                                  ELSE c.results[k]],
                  !.keys = @ \cup {key}]

\* run(task): lines 45-50
ClusterRun ==
    /\ co.pc = "start"
    /\ SetCo([co EXCEPT !.pc = IF co.parallel /\ Len(co.endpoints) > 1
                               THEN "submit" ELSE "sequential"])

\* _run_sequential: one turn of the loop, lines 72-78
RunSequential ==
    /\ co.pc = "sequential"
    /\ co.submitted < Len(co.endpoints)
    /\ LET i == co.submitted + 1
           c == [co EXCEPT !.submitted = i,
                           !.worker[i] = IF co.fates[i] = "ok" THEN "returned"
                                         ELSE "raised"]
       IN  SetCo(Store(c, i, co.fates[i] # "ok"))

\* _run_parallel: executor.submit for the next endpoint, lines 57-60
Submit ==
    /\ co.pc = "submit"
    /\ LET i == co.submitted + 1
       IN  SetCo([co EXCEPT !.submitted = i, !.worker[i] = "queued",
                            !.pc = IF i = Len(co.endpoints) THEN "collect"
                                   ELSE "submit"])

\* a pool thread enters _run_on_endpoint and builds the agent, lines 82-109
BuildAgent(i) ==
    /\ co.worker[i] = "queued"
    /\ SetCo([co EXCEPT !.worker[i] = IF co.fates[i] = "construct_raises"
                                      THEN "raised" ELSE "built"])

\* the pool thread runs the agent: agent.run(task)
AgentRun(i) ==
    /\ co.worker[i] = "built"
    /\ SetCo([co EXCEPT !.worker[i] = IF co.fates[i] = "run_raises"
                                      THEN "raised" ELSE "returned"])

\* _run_parallel: as_completed yields a finished future, lines 61-67
Collect(i) ==
    /\ co.pc = "collect"
    /\ i \notin co.collected
    /\ co.worker[i] \in {"returned", "raised"}
    /\ SetCo(Store([co EXCEPT !.collected = @ \cup {i}], i,
                   co.worker[i] = "raised"))

\* return results
ClusterReturn ==
    /\ \/ co.pc = "sequential" /\ co.submitted = Len(co.endpoints)
       \/ co.pc = "collect" /\ co.collected = DOMAIN co.endpoints
    /\ SetCo([co EXCEPT !.pc = "done"])

ClusterNext ==
    \/ ClusterRun
    \/ RunSequential
    \/ Submit
    \/ \E i \in DOMAIN co.endpoints : BuildAgent(i)
    \/ \E i \in DOMAIN co.endpoints : AgentRun(i)
    \/ \E i \in DOMAIN co.endpoints : Collect(i)
    \/ ClusterReturn

ClusterSpec == ClusterInit /\ [][ClusterNext]_vars

\* the run of endpoint i was executed to its end
Completed(i) == co.worker[i] \in {"returned", "raised"}

\* C26: when run returns, in parallel mode under every interleaving and in
\* sequential mode, every endpoint's run was executed to its end whatever
\* the others did, and the map holds one result for every endpoint: its own
\* `error: ...` if its agent construction or run raised, else what its run
\* returned.
C26_EveryEndpointCollected ==
    co.pc = "done" =>
        /\ \A i \in DOMAIN co.endpoints : Completed(i)
        /\ Cardinality(co.keys) = Len(co.endpoints)
        /\ \A i \in DOMAIN co.endpoints :
              /\ KeyOf(co.endpoints[i]) \in co.keys
              /\ co.results[KeyOf(co.endpoints[i])]
                    = Result(i, co.fates[i] # "ok")

---------------------------------------------------------------------------
(* SkillRouter._score_skill and the vocabulary files: skills/router.py *)

MaxCalls == 2

Words == {"pay", "open"}

\* an item of routing.keywords / routing.task_regex: a literal word, or the
\* template {{v}} that names the vocabulary entry v
Lit(word) == [ref |-> FALSE, word |-> word]

Ref == [ref |-> TRUE, word |-> "{{v}}"]

\* a vocabulary (the inline `vocab` of a skill, or the content of a
\* vocabulary file): has = FALSE when it has no entry v, else the list v
Vocab(has, words) == [has |-> has, words |-> words]

NoVocab == Vocab(FALSE, {})

\* spec["routing"]: priority, keywords, keyword_mode, task_regex,
\* require_app ("" when missing), preconditions, and spec["risk"]
Routing(priority, keywords, keyword_mode, task_regex, require_app, pre, risk) ==
    [priority |-> priority, keywords |-> keywords, keyword_mode |-> keyword_mode,
     task_regex |-> task_regex, require_app |-> require_app,
     preconditions |-> pre, risk |-> risk]

\* a registered skill as the router reads it; has_path: spec["vocab_path"] or
\* config.default_vocab_path names a file
RoutedSkill(id, shadow, routing, vocab, has_path) ==
    [id |-> id, shadow |-> shadow, routing |-> routing, vocab |-> vocab,
     has_path |-> has_path]

\* an observation: the foreground app; has = FALSE is observation None
Screen(has, app_name) == [has |-> has, app_name |-> app_name]

\* the vocabulary file on disk: exists = FALSE when open() fails
VocabFile(exists, vocab) == [exists |-> exists, vocab |-> vocab]

\* _load_vocab(spec): the inline vocabulary, updated with the file's
_load_vocab(sk, file) ==
    IF sk.has_path /\ file.exists /\ file.vocab.has THEN file.vocab ELSE sk.vocab

\* _expand_routing_list(values, spec), as the number of items of the
\* expanded list and the number of them the task contains
Expanded(values, vocab, task) ==
    LET size(v) == IF v.ref /\ vocab.has THEN Cardinality(vocab.words) ELSE 1
        hit(v) == IF v.ref
                  THEN IF vocab.has THEN Cardinality(vocab.words \cap task.words)
                       ELSE 0
                  ELSE IF v.word \in task.words THEN 1 ELSE 0
        sum[i \in 0..Len(values)] ==
            IF i = 0 THEN [size |-> 0, hits |-> 0]
            ELSE [size |-> sum[i - 1].size + size(values[i]),
                  hits |-> sum[i - 1].hits + hit(values[i])]
    IN  sum[Len(values)]

Scored(score, reason) == [score |-> score, reason |-> reason]

\* _score_skill(spec, task, observation)
_score_skill(sk, risk_first, task, screen, file) ==
    LET r == sk.routing
        vocab == _load_vocab(sk, file)
        kw == Expanded(r.keywords, vocab, task)
        rx == Expanded(r.task_regex, vocab, task)
        keyed == kw.size > 0
        after_kw == r.priority + (IF keyed THEN kw.hits * 10 ELSE 0)
        after_rx == after_kw + (IF rx.size > 0 THEN 8 ELSE 0)
        app == r.require_app # "" /\ screen.has
        after_app == after_rx + (IF app THEN 5 ELSE 0)
        pre == IF r.preconditions.op # "none" /\ screen.has
               THEN evaluate_condition(r.preconditions) ELSE "unknown"
        after_pre == after_app + (IF pre = "true" THEN 4 ELSE 0)
        boost == IF ~risk_first THEN 0
                 ELSE IF r.risk = "high" THEN 6
                 ELSE IF r.risk = "medium" THEN 3 ELSE 0
        reason == IF rx.size > 0 THEN "regex"
                  ELSE IF keyed THEN "keyword" ELSE "routing"
    IN  IF keyed /\ r.keyword_mode = "all" /\ kw.hits < kw.size
        THEN Scored(0, "keyword-miss")
        ELSE IF keyed /\ kw.hits = 0 THEN Scored(0, "keyword-miss")
        ELSE IF rx.size > 0 /\ rx.hits = 0 THEN Scored(0, "regex-miss")
        ELSE IF app /\ screen.app_name # r.require_app THEN Scored(0, "app-miss")
        ELSE IF pre = "false" THEN Scored(0, "precondition-miss")
        ELSE Scored(after_pre + boost, reason)

\* the registry as select sees it: every skill with its score for the task
ScoredListing(registry, risk_first, task, screen, file) ==
    [i \in DOMAIN registry |->
        SkillEntry(registry[i].id, FALSE, registry[i].shadow,
                   _score_skill(registry[i], risk_first, task, screen, file).score)]

\* select(task, observation) with the reason _score_skill gave for the
\* skill it selected
Selected(c) ==
    LET d == select(c.router,
                    ScoredListing(c.registry, c.risk_first, c.task, c.screen,
                                  c.file), c.task)
        chosen == SelectSeq(c.registry, LAMBDA sk : sk.id = d.skill_id)
    IN  IF d.reason \in {"routing-match", "shadow-match"}
        THEN [d EXCEPT !.reason = _score_skill(chosen[1], c.risk_first, c.task,
                                               c.screen, c.file).reason]
        ELSE d

\* skills as skill files may declare them
RoutedSkills ==
    {RoutedSkill("main", FALSE,
                 Routing(0, <<Ref>>, "any", <<>>, "", NoneSpec, ""),
                 Vocab(TRUE, {"pay"}), TRUE),
     RoutedSkill("other", FALSE,
                 Routing(0, <<Lit("pay")>>, "any", <<>>, "a1", Test("true"), "high"),
                 NoVocab, TRUE),
     RoutedSkill("both", FALSE,
                 Routing(1, <<Lit("pay"), Ref>>, "all", <<Lit("open")>>, "",
                         Test("false"), "medium"),
                 Vocab(TRUE, {"open"}), FALSE),
     RoutedSkill("draft", TRUE,
                 Routing(1, <<>>, "any", <<Ref>>, "a1", Test("unknown"), ""),
                 NoVocab, TRUE)}

RoutedRegistries ==
    {s \in UNION {[1..n -> RoutedSkills] : n \in 1..2} :
        \A i, j \in DOMAIN s : i # j => s[i].id # s[j].id}

VocabFiles == {VocabFile(FALSE, NoVocab), VocabFile(TRUE, NoVocab),
               VocabFile(TRUE, Vocab(TRUE, {"open"})),
               VocabFile(TRUE, Vocab(TRUE, {"pay", "open"}))}

ScoreInit ==
    /\ co \in {[pc |-> "ready", router |-> rc, risk_first |-> rf, registry |-> rg,
                task |-> Task(d, w), screen |-> sc, file |-> f, written |-> FALSE,
                calls |-> <<>>] :
                 rc \in {DefaultRouter,
                         [DefaultRouter EXCEPT !.allow_shadow_execution = TRUE]},
                 rf \in BOOLEAN, rg \in RoutedRegistries,
                 d \in {"", "main"}, w \in {{"pay"}, {"open"}, {"pay", "open"}},
                 sc \in {Screen(FALSE, ""), Screen(TRUE, "a1"), Screen(TRUE, "a2")},
                 f \in VocabFiles}
    /\ cfg \in {c \in Configs : ~c.dry_run /\ c.strict_preconditions}
    /\ skill \in {sk \in BeforeSkills : sk.steps[1].on_error = <<>>}
    /\ call = GoodCall
    /\ observer = LiveObserver
    /\ pc = "idle"
    /\ stepIdx = 0
    /\ attempt = 0
    /\ outcome = Unbound
    /\ error = NoError
    /\ cycles = 0
    /\ report = <<>>
    /\ dispatched = <<>>
    /\ result = NoResult
    /\ applied = NoApplied

\* a call of select(task, observation) on the router
SelectCall ==
    /\ co.pc = "ready"
    /\ Len(co.calls) < MaxCalls
    /\ SetCo([co EXCEPT !.calls = Append(@, Selected(co))])

\* between two calls the vocabulary file is rewritten, created or removed
WriteVocab ==
    /\ co.pc = "ready"
    /\ ~co.written
    /\ Len(co.calls) \in 1..(MaxCalls - 1)
    /\ \E f \in VocabFiles \ {co.file} :
          SetCo([co EXCEPT !.file = f, !.written = TRUE])

ScoreSpec == ScoreInit /\ [][SelectCall \/ WriteVocab]_vars

\* C27: select is deterministic: the calls made with the same task, the
\* same observation, the same registry content and order and the same
\* router configuration return the same action, skill id and reason; and
\* no call changes the registry or the router configuration.
C27_SelectDeterministic ==
    /\ [](\A i, j \in DOMAIN co.calls : co.calls[i] = co.calls[j])
    /\ [][/\ co'.registry = co.registry
          /\ co'.router = co.router
          /\ co'.risk_first = co.risk_first]_vars

---------------------------------------------------------------------------
(* The specification of System2.recover *)

RecoverInit ==
    /\ co \in {[pc |-> "recover",
                s2 |-> [enable_exception_skills |-> e, enable_vlm_recovery |-> v,
                        has_analyzer |-> a],
                registry |-> r, code |-> c, observation |-> o, analysis |-> an,
                decision |-> RecoveryDecision("", "", "")] :
                 e \in BOOLEAN, v \in BOOLEAN, a \in BOOLEAN, r \in Registries,
                 c \in {"SCREEN_MISMATCH", "ACTION_FAILED", "ABORTED"},
                 o \in BOOLEAN, an \in Analyses}
    /\ cfg \in {c \in Configs : ~c.dry_run /\ c.strict_preconditions}
    /\ skill \in {sk \in BeforeSkills : sk.steps[1].on_error = <<>>}
    /\ call = GoodCall
    /\ observer = LiveObserver
    /\ pc = "idle"
    /\ stepIdx = 0
    /\ attempt = 0
    /\ outcome = Unbound
    /\ error = NoError
    /\ cycles = 0
    /\ report = <<>>
    /\ dispatched = <<>>
    /\ result = NoResult
    /\ applied = NoApplied

\* recover(error, observation)
Recover ==
    /\ co.pc = "recover"
    /\ SetCo([co EXCEPT !.pc = "recovered",
                        !.decision = recover(co.s2, co.registry, co.code,
                                             co.observation, co.analysis)])

RecoverSpec == RecoverInit /\ [][Recover]_vars

\* the id is registered as a skill of recovery role or level
RecoverySkill(id) == \E sk \in co.registry : sk.id = id /\ sk.recovery

\* the analyzer's suggestion may be used
SuggestionAccepted ==
    /\ co.s2.enable_vlm_recovery
    /\ co.analysis.status = "ok"
    /\ co.analysis.confidence >= vlm_confidence_threshold
    /\ co.analysis.suggested # ""
    /\ RecoverySkill(co.analysis.suggested)

\* the id the static error-code map gives is registered
MappedRegistered ==
    /\ _map_error_to_skill(co.code) # ""
    /\ \E sk \in co.registry : sk.id = _map_error_to_skill(co.code)

\* C29: recover decides `skill` only with exception-skill handling enabled
\* and for a registered id; it uses the analyzer's suggestion only if visual
\* analysis is enabled, the confidence is at least the threshold and the
\* suggested id is a registered recovery skill; otherwise it uses the id of
\* the static error-code map, and only if that id is registered; in every
\* other case the decision is `none`.
C29_RecoverDecision ==
    co.pc = "recovered" =>
        LET d == co.decision
        IN  /\ d.action \in {"skill", "none"}
            /\ d.action = "skill" =>
                  /\ co.s2.enable_exception_skills
                  /\ \E sk \in co.registry : sk.id = d.skill_id
                  /\ d.reason \in {"vlm_recovery", "mapped_exception"}
            /\ (d.action = "skill" /\ d.reason = "vlm_recovery") =>
                  SuggestionAccepted /\ d.skill_id = co.analysis.suggested
            /\ (d.action = "skill" /\ d.reason = "mapped_exception") =>
                  MappedRegistered /\ d.skill_id = _map_error_to_skill(co.code)
            /\ (d.action = "skill" /\ ~SuggestionAccepted) =>
                  d.reason = "mapped_exception"
            /\ (co.s2.enable_exception_skills /\ MappedRegistered) =>
                  d.action = "skill"
            /\ d.action = "none" => d.skill_id = ""
            /\ (~co.s2.enable_exception_skills
                  \/ (~SuggestionAccepted /\ ~MappedRegistered)) =>
                  d.action = "none"

\* a suggestion of exactly the threshold confidence was used although the
\* error-code map names another registered skill
C29_Witness ==
    /\ co.pc = "recovered"
    /\ co.decision.action = "skill"
    /\ co.decision.reason = "vlm_recovery"
    /\ co.analysis.confidence = vlm_confidence_threshold
    /\ MappedRegistered
    /\ co.decision.skill_id # _map_error_to_skill(co.code)

---------------------------------------------------------------------------
(* UI selector resolution: skills/selector.py (SelectorSpec) *)

\* the longest node list resolved
MaxNodes == 3

\* UINode(text, resource_id, content_desc, class_name, clickable, bounds);
\* strings are sequences of characters, bounds are <<left, top, right, bottom>>
UINode(text, resource_id, content_desc, class_name, clickable, bounds) ==
    [text |-> text, resource_id |-> resource_id, content_desc |-> content_desc,
     class_name |-> class_name, clickable |-> clickable, bounds |-> bounds]

\* UINode.center: int((left + right) / 2), int((top + bottom) / 2)
center(node) ==
    <<(node.bounds[1] + node.bounds[3]) \div 2,
      (node.bounds[2] + node.bounds[4]) \div 2>>

\* UINode.area: max(0, right - left) * max(0, bottom - top)
area(node) ==
    Max(0, node.bounds[3] - node.bounds[1]) * Max(0, node.bounds[4] - node.bounds[2])

\* `target in value` on strings
Within(target, value) ==
    \E i \in 0..(Len(value) - Len(target)) :
        SubSeq(value, i + 1, i + Len(target)) = target

\* _match_text(value, target, mode) for the modes exact and contains
_match_text(value, target, mode) ==
    IF mode = "exact" THEN value = target
    ELSE IF mode = "contains" THEN Within(target, value)
    ELSE FALSE

\* a selector: "" is a field the selector does not give, clickable = FALSE
\* stands for a missing `clickable`, has_index = FALSE for a missing index
Selector(text, content_desc, resource_id, class_name, clickable, match, has_index, index) ==
    [text |-> text, content_desc |-> content_desc, resource_id |-> resource_id,
     class_name |-> class_name, clickable |-> clickable, match |-> match,
     has_index |-> has_index, index |-> index]

\* node_matches_selector(node, selector)
node_matches_selector(node, selector) ==
    /\ selector.text # <<>> => _match_text(node.text, selector.text, selector.match)
    /\ selector.content_desc # <<>> =>
          _match_text(node.content_desc, selector.content_desc, selector.match)
    /\ selector.resource_id # <<>> =>
          _match_text(node.resource_id, selector.resource_id, selector.match)
    /\ selector.class_name # <<>> =>
          _match_text(node.class_name, selector.class_name, selector.match)
    /\ selector.clickable => node.clickable

\* find_nodes(nodes, selector)
find_nodes(nodes, selector) ==
    SelectSeq(nodes, LAMBDA node : node_matches_selector(node, selector))

\* the sort key (clickable, area) of a is below that of b
KeyBelow(a, b) ==
    \/ ~a.clickable /\ b.clickable
    \/ a.clickable = b.clickable /\ area(a) < area(b)

\* pick_best_node(nodes) on a non-empty list: the sort is stable, also with
\* reverse=True, so the first of the nodes with the highest key
pick_best_node(nodes) ==
    LET best == CHOOSE i \in 1..Len(nodes) :
                  /\ \A j \in 1..Len(nodes) : ~KeyBelow(nodes[i], nodes[j])
                  /\ \A j \in 1..(i - 1) : KeyBelow(nodes[j], nodes[i])
    IN  nodes[best]

\* the return value None
NoPoint == <<>>

\* resolve_selector_to_point(nodes, selector)
resolve_selector_to_point(nodes, selector) ==
    LET by_id == SelectSeq(nodes,
                     LAMBDA node : _match_text(node.resource_id,
                                               selector.resource_id, selector.match))
        matches == find_nodes(nodes, selector)
    IN  IF selector.resource_id # <<>> /\ by_id # <<>>
        THEN center(pick_best_node(by_id))
        ELSE IF matches = <<>>
        THEN NoPoint
        ELSE IF selector.has_index /\ 0 <= selector.index
                /\ selector.index < Len(matches)
        THEN center(matches[selector.index + 1])
        ELSE center(pick_best_node(matches))

\* evaluate_condition({"selector": selector}, observation): conditions.py
\* lines 117-121
selector_condition(nodes, selector) ==
    IF nodes = <<>> THEN "unknown"
    ELSE IF find_nodes(nodes, selector) # <<>> THEN "true"
    ELSE "false"

\* the nodes of a screen: two buttons with the same resource id, one of them
\* clickable and smaller; a button whose id is a part of theirs; a clickable
\* label without id; and a clickable node with an inverted, empty box
ScreenNodes ==
    {UINode(<<"o">>, <<"b", "s">>, <<>>, <<"v">>, TRUE, <<0, 0, 2, 2>>),
     UINode(<<>>, <<"b", "s">>, <<>>, <<"v">>, FALSE, <<0, 0, 4, 4>>),
     UINode(<<"o">>, <<"b">>, <<>>, <<>>, FALSE, <<2, 2, 5, 4>>),
     UINode(<<"o", "k">>, <<>>, <<"o">>, <<"v">>, TRUE, <<4, 0, 6, 6>>),
     UINode(<<>>, <<"b", "s">>, <<>>, <<>>, TRUE, <<3, 1, 1, 5>>)}

NodeLists == UNION {[1..n -> ScreenNodes] : n \in 0..MaxNodes}

Selectors ==
    {Selector(t, <<>>, r, c, k, m, FALSE, 0) :
        t \in {<<>>, <<"o">>}, r \in {<<>>, <<"b">>, <<"b", "s">>},
        c \in {<<>>, <<"v">>}, k \in BOOLEAN, m \in {"contains", "exact"}}
    \cup {Selector(t, <<>>, r, c, k, m, TRUE, i) :
            t \in {<<>>, <<"o">>}, r \in {<<>>, <<"b">>, <<"b", "s">>},
            c \in {<<>>, <<"v">>}, k \in BOOLEAN, m \in {"contains", "exact"},
            i \in -1..(MaxNodes - 1)}
    \cup {Selector(<<>>, <<"o">>, <<>>, <<>>, FALSE, "regex", FALSE, 0)}

\* a node list and a selector, about to be resolved
SelectorInit ==
    /\ co \in {[pc |-> "resolve", nodes |-> ns, selector |-> s,
                point |-> NoPoint, holds |-> "unknown"] :
                 ns \in NodeLists, s \in Selectors}
    /\ cfg \in {c \in Configs : ~c.dry_run /\ c.strict_preconditions}
    /\ skill \in {sk \in BeforeSkills : sk.steps[1].on_error = <<>>}
    /\ call = GoodCall
    /\ observer = LiveObserver
    /\ pc = "idle"
    /\ stepIdx = 0
    /\ attempt = 0
    /\ outcome = Unbound
    /\ error = NoError
    /\ cycles = 0
    /\ report = <<>>
    /\ dispatched = <<>>
    /\ result = NoResult
    /\ applied = NoApplied

\* resolve_selector_to_point(nodes, selector), and the `selector` condition
\* evaluated on the same nodes
ResolveSelector ==
    /\ co.pc = "resolve"
    /\ SetCo([co EXCEPT !.pc = "resolved",
                        !.point = resolve_selector_to_point(co.nodes, co.selector),
                        !.holds = selector_condition(co.nodes, co.selector)])

SelectorSpec == SelectorInit /\ [][ResolveSelector]_vars

\* find_nodes on the arguments of the call
Matches == find_nodes(co.nodes, co.selector)

\* C34: resolve_selector_to_point honors an explicit index: with an integer
\* index in range of the matches, also on selectors that give a
\* resource_id, the point is the center of the index-th of
\* find_nodes(nodes, selector); without an index it is the center of the
\* match pick_best_node prefers; with no match there is no point.
C34_IndexHonored ==
    co.pc = "resolved" =>
        IF Matches = <<>>
        THEN co.point = NoPoint
        ELSE IF co.selector.has_index /\ co.selector.index \in 0..(Len(Matches) - 1)
        THEN co.point = center(Matches[co.selector.index + 1])
        ELSE ~co.selector.has_index => co.point = center(pick_best_node(Matches))

\* C40: a point that resolve_selector_to_point returns is the center of a
\* node that satisfies every field of the selector; so it returns a point
\* exactly when the `selector` condition on the same nodes is true.
C40_PointIsOfAMatch ==
    co.pc = "resolved" =>
        /\ co.point # NoPoint =>
              \E i \in DOMAIN Matches : co.point = center(Matches[i])
        /\ co.point # NoPoint <=> co.holds = "true"

---------------------------------------------------------------------------
(* Properties of COTACoordinator.run (CoordSpec) *)

\* a run event of the history that failed with an error
FailedRun(e) ==
    /\ e.ev = "run"
    /\ e.result.status = "returned"
    /\ ~e.result.success
    /\ e.result.has_error

SucceededRun(e) ==
    /\ e.ev = "run"
    /\ e.result.status = "returned"
    /\ e.result.success

\* position i of the history ends a recovery path: the step's run failed
\* with an error that needs no takeover, recover chose a registered skill,
\* that skill's run succeeded, and the re-run of the step succeeded
RecoveredAt(i) ==
    /\ i >= 4
    /\ i <= Len(co.log)
    /\ co.log[i].role = "retry" /\ SucceededRun(co.log[i])
    /\ co.log[i-1].role = "recovery" /\ SucceededRun(co.log[i-1])
    /\ co.log[i-2].ev = "recover" /\ co.log[i-2].role = "skill"
    /\ IsRegistered(co.registry, co.log[i-2].skill)
    /\ co.log[i-1].skill = co.log[i-2].skill
    /\ co.log[i-3].role = "step" /\ FailedRun(co.log[i-3])
    /\ ~co.log[i-3].result.requires_takeover

\* C1: after a recovery path on plan step k (failed run without takeover,
\* registered recovery skill, successful recovery run, successful re-run),
\* the coordinator goes on with plan step k+1: nothing else of step k is
\* run, whatever is run next belongs to step k+1, and when k was the last
\* step the value returned is "Task completed".
C1_RecoveryContinues ==
    \A i \in 1..Len(co.log) :
        RecoveredAt(i) =>
            LET k == co.log[i].step
            IN  /\ co.log[i].skill = co.plan.steps[k].skill_id
                /\ co.idx = k + 1 \/ i < Len(co.log)
                /\ i < Len(co.log) =>
                     co.log[i+1].step = k + 1 /\ co.log[i+1].role = "step"
                /\ (k = Len(co.plan.steps) /\ co.pc = "done") =>
                     co.ret = Fixed("Task completed")
                /\ i = Len(co.log) => co.pc \in {"step", "done"}

C1_Witness ==
    /\ co.pc = "done"
    /\ co.ret = Fixed("Task completed")
    /\ Len(co.plan.steps) = 2
    /\ RecoveredAt(4)
    /\ RecoveredAt(Len(co.log))
    /\ Len(co.log) = 8

\* a run that failed with an error whose requires_takeover flag is set
TakeoverRun(e) == FailedRun(e) /\ e.result.requires_takeover

\* C2: a skill run (of a plan step, of a recovery skill, or a re-run) that
\* fails with requires_takeover set is the last thing the coordinator does:
\* no recover call, no skill run and no plan step follows it, and run has
\* returned.
C2_TakeoverStops ==
    \A i \in 1..Len(co.log) :
        TakeoverRun(co.log[i]) => i = Len(co.log) /\ co.pc = "done"

C2_Witness ==
    /\ co.pc = "done"
    /\ Len(co.log) >= 1
    /\ co.log[Len(co.log)].role = "step"
    /\ co.log[Len(co.log)].step = 2
    /\ TakeoverRun(co.log[Len(co.log)])
    /\ co.log[Len(co.log)].result.code = "TARGET_NOT_FOUND"
    /\ co.s2.enable_exception_skills
    /\ IsRegistered(co.registry, "adapt_ui_change")
    /\ co.ret.text \in {"Manual takeover required", "failure"}

\* System2.plan planned the task and run is past line 36
Planned == co.planner = "system2" /\ co.pc # "start"

\* C11: when the router decides block or shadow, or finds no skill (none),
\* the plan of System2.plan is blocked and has no steps, and the coordinator
\* has returned without a single call of skill_runner.run or
\* system1.execute_intent.
C11_BlockedPlanRunsNothing ==
    (Planned /\ co.decision.action \in {"block", "shadow", "none"})
        => /\ co.plan.blocked
           /\ co.plan.steps = <<>>
           /\ co.pc = "done"
           /\ co.log = <<>>

\* the scoring path settled on a shadow skill and the coordinator returned
C11_Witness ==
    /\ Planned
    /\ co.task.directive = ""
    /\ co.decision.action = "shadow"
    /\ co.decision.skill_id = "draft"
    /\ co.pc = "done"
    /\ co.ret.text = "Blocked"
    /\ co.has_runner

\* event i of the history is a run of the given role
RunOf(i, role) == co.log[i].ev = "run" /\ co.log[i].role = role

\* the text `message or default` gives for the run at position i
Surfaced(i, default) ==
    IF co.log[i].result.message = "" THEN default ELSE co.log[i].result.message

\* C12: a re-run of the original step comes directly after a run of the
\* recovery skill that succeeded, itself after a recover call that chose that
\* skill for the step's failed run, and it runs the step's own skill; a
\* recovery run that does not succeed is the last call and run is over; a
\* recover call that yields no skill is the last call, run is over, and the
\* value returned is the message of the original failed run ("Task failed"
\* when that message is empty).
C12_RetryOnlyAfterRecovery ==
    \A i \in 1..Len(co.log) :
        /\ RunOf(i, "retry") =>
              /\ i >= 4
              /\ RunOf(i - 1, "recovery") /\ SucceededRun(co.log[i - 1])
              /\ co.log[i - 2].ev = "recover" /\ co.log[i - 2].role = "skill"
              /\ co.log[i - 2].skill = co.log[i - 1].skill
              /\ RunOf(i - 3, "step") /\ FailedRun(co.log[i - 3])
              /\ co.log[i].skill = co.log[i - 3].skill
              /\ co.log[i].step = co.log[i - 3].step
        /\ (RunOf(i, "recovery") /\ ~SucceededRun(co.log[i])) =>
              i = Len(co.log) /\ co.pc = "done"
        /\ (co.log[i].ev = "recover" /\ co.log[i].role # "skill") =>
              /\ i = Len(co.log) /\ co.pc = "done"
              /\ i >= 2
              /\ RunOf(i - 1, "step") /\ FailedRun(co.log[i - 1])
              /\ co.ret.text = Surfaced(i - 1, "Task failed")
              /\ co.ret.of \in {0, i - 1}

\* step 1 was re-run after a recovery that succeeded; the run of step 2
\* failed, recover found no skill for it, and its message was returned
C12_Witness ==
    /\ co.pc = "done"
    /\ Len(co.log) = 6
    /\ RunOf(4, "retry") /\ SucceededRun(co.log[4])
    /\ RunOf(3, "recovery") /\ SucceededRun(co.log[3])
    /\ RunOf(5, "step") /\ FailedRun(co.log[5])
    /\ co.log[5].result.message = "failure"
    /\ co.log[6].ev = "recover" /\ co.log[6].role = "none"
    /\ co.ret = [text |-> "failure", of |-> 5]

\* C14: with allow_shadow_execution off, no skill marked shadow is passed to
\* skill_runner.run during Coordinator.run over System2.plan: not as the
\* planned step, not as its re-run, and not as the recovery skill
\* System2.recover chose (from the exception map or the analyzer).
C14_ShadowNeverRun ==
    (co.planner = "system2" /\ ~co.router.allow_shadow_execution)
        => \A i \in 1..Len(co.log) :
              co.log[i].ev = "run" => ~ShadowId(co.log[i].skill)

---------------------------------------------------------------------------
(* The specification of SkillRunner.run *)

CoIdle == [pc |-> "off", plan |-> Plan(<<>>, TRUE, ""), idx |-> 0,
           observation |-> FALSE, failed |-> NoRun, failed_at |-> 0,
           recovery |-> "", log |-> <<>>, ret |-> Fixed(""),
           s2 |-> [enable_exception_skills |-> FALSE, enable_vlm_recovery |-> FALSE,
                   has_analyzer |-> FALSE],
           registry |-> {}, has_runner |-> FALSE]

Init ==
    /\ \/ /\ cfg \in Configs
          /\ skill \in SkillDefs
          /\ \/ call = GoodCall /\ observer = LiveObserver
             \/ call = GoodCall /\ observer \in PlaybackObservers
                   /\ skill \in LongSkills
             \/ call \in BadCalls /\ observer = LiveObserver /\ skill \in LongSkills
       \/ /\ cfg \in CommonConfigs
          /\ skill \in CommonSkills
          /\ call = GoodCall
          /\ observer = LiveObserver
    /\ pc = "idle"
    /\ stepIdx = 0
    /\ attempt = 0
    /\ outcome = Unbound
    /\ error = NoError
    /\ cycles = 0
    /\ report = <<>>
    /\ dispatched = <<>>
    /\ result = NoResult
    /\ applied = NoApplied
    /\ co = CoIdle

Next ==
    \/ Run
    \/ AttemptStart
    \/ Exhausted
    \/ BeforeCycle
    \/ Guard
    \/ Act
    \/ AssertStep
    \/ Post

Spec == Init /\ [][Next]_vars

---------------------------------------------------------------------------
(* Properties of SkillRunner.run (Spec) *)

\* the max_attempts a step resolves to: its own retry.max_attempts if it has
\* one, else the runner default, and at least 1
ResolvedAttempts(i) ==
    LET r == skill.steps[i].retry
        n == IF r.present /\ r.max_attempts # -1 THEN r.max_attempts
             ELSE cfg.default_retry.max_attempts
    IN  IF n >= 1 THEN n ELSE 1

\* C3: for every step, the attempt counter and the number of attempt records
\* never exceed the step's resolved max_attempts, whatever retry policy an
\* error handler supplies.
C3_AttemptsBounded ==
    /\ stepIdx >= 1 => attempt <= ResolvedAttempts(stepIdx)
    /\ \A j \in 1..Len(report) :
          Len(report[j].attempts) <= ResolvedAttempts(report[j].step_id)

\* a handler whose retry override allows more attempts than the step was
\* applied on the step's last attempt, and the step stopped there
C3_Witness ==
    /\ pc = "done"
    /\ stepIdx >= 1
    /\ attempt = ResolvedAttempts(stepIdx)
    /\ attempt > 1
    /\ applied.sel.scope = "step"
    /\ applied.sel.h.retry.present
    /\ applied.sel.h.retry.max_attempts > ResolvedAttempts(stepIdx)
    /\ applied.error.attempt = attempt
    /\ outcome.resolution = "retry"
    /\ result.kind = "returned"
    /\ result.error.code = "ABORTED"

NoHandlersDeclared ==
    /\ MergedHandlers = <<>>
    /\ \A i \in DOMAIN skill.steps : skill.steps[i].on_error = <<>>

\* the action of step i was handed to the device in attempt k, with result r
Dispatched(i, k, r) ==
    \E n \in DOMAIN dispatched :
        /\ dispatched[n].kind = "step"
        /\ dispatched[n].step = i
        /\ dispatched[n].attempt = k
        /\ dispatched[n].result = r

\* C4 (dry_run off): a one-step skill without handlers whose guard failed on
\* attempts 1..k-1 and passed on attempt k <= max_attempts, and whose
\* dispatch in attempt k succeeded, ends with exactly k attempt records, the
\* k-th successful, and run returns success.
C4_GuardRetrySucceeds ==
    \A k \in 1..(MaxAttempts + 1) :
        ( /\ pc = "done"
          /\ ~cfg.dry_run
          /\ NoHandlersDeclared
          /\ Len(skill.steps) = 1
          /\ ~skill.postconditions.present
          /\ Len(report) = 1
          /\ k <= ResolvedAttempts(1)
          /\ \A j \in 1..(k - 1) :
                /\ j <= Len(report[1].attempts)
                /\ report[1].attempts[j].error.code = "SCREEN_MISMATCH"
          /\ Dispatched(1, k, "ok") )
        => /\ result.kind = "returned"
           /\ result.success
           /\ Len(report[1].attempts) = k
           /\ report[1].attempts[k].success

\* C5: when the action of an optional step was dispatched and the device
\* reported failure, and no handler is declared, the attempt is recorded
\* with an ACTION_FAILED error, the step counts as succeeded and run has not
\* raised.
C5_OptionalActionFailedContinues ==
    \A n \in DOMAIN dispatched :
        ( /\ dispatched[n].kind = "step"
          /\ dispatched[n].result = "fail"
          /\ skill.steps[dispatched[n].step].optional
          /\ NoHandlersDeclared )
        => /\ result.kind # "raised"
           /\ report[dispatched[n].step].success
           /\ \E a \in DOMAIN report[dispatched[n].step].attempts :
                 /\ report[dispatched[n].step].attempts[a].attempt
                        = dispatched[n].attempt
                 /\ report[dispatched[n].step].attempts[a].error.code
                        = "ACTION_FAILED"

\* C6: run never raises: when it is over it has returned a result, and a
\* failed result carries a SkillError.
C6_RunNeverRaises ==
    pc = "done" =>
        /\ result.kind = "returned"
        /\ ~result.success => result.error # NoError

\* C7: when the step made all its max_attempts attempts, every one failed and
\* every verdict of the pipeline was retry, the error run returns has code
\* ABORTED.
C7_ExhaustedIsAborted ==
    ( /\ pc = "done"
      /\ result.kind = "returned"
      /\ stepIdx >= 1
      /\ ~report[Len(report)].success
      /\ attempt = ResolvedAttempts(stepIdx)
      /\ Len(report[Len(report)].attempts) = attempt
      /\ \A a \in 1..attempt : ~report[Len(report)].attempts[a].success
      /\ outcome.resolution = "retry" )
    => result.error.code = "ABORTED"

\* a handler is eligible for the error of the last pipeline call
Eligible(h) ==
    /\ h.trigger = "on_error"
    /\ h.codes = {} \/ applied.error.code \in h.codes
    /\ h.error_ids = {} \/ applied.error.error_id \in h.error_ids
    /\ h.when = "none" \/ applied.when[h.when] = "true"

LocalHandlers ==
    IF applied.step >= 1 THEN skill.steps[applied.step].on_error ELSE <<>>

\* C8: the handler applied to an error is the first eligible one, scanning
\* the failing step's on_error list in order and then the skill-wide
\* error_handlers in order; none is applied only when none is eligible.
C8_FirstMatchingHandler ==
    applied.error # NoError =>
        LET sel == applied.sel
        IN  /\ sel.scope = "step" =>
                 /\ sel.index \in DOMAIN LocalHandlers
                 /\ sel.h = LocalHandlers[sel.index]
                 /\ Eligible(sel.h)
                 /\ \A j \in 1..(sel.index - 1) : ~Eligible(LocalHandlers[j])
            /\ sel.scope = "skill" =>
                 /\ sel.index \in DOMAIN MergedHandlers
                 /\ sel.h = MergedHandlers[sel.index]
                 /\ Eligible(sel.h)
                 /\ \A j \in DOMAIN LocalHandlers : ~Eligible(LocalHandlers[j])
                 /\ \A j \in 1..(sel.index - 1) : ~Eligible(MergedHandlers[j])
            /\ sel.scope = "none" =>
                 /\ \A j \in DOMAIN LocalHandlers : ~Eligible(LocalHandlers[j])
                 /\ \A j \in DOMAIN MergedHandlers : ~Eligible(MergedHandlers[j])

\* the second skill-wide handler was applied after every step-local handler
\* and the first skill-wide one (its condition unknown) were passed over
C8_Witness ==
    /\ applied.error # NoError
    /\ applied.step >= 1
    /\ LocalHandlers # <<>>
    /\ applied.sel.scope = "skill"
    /\ applied.sel.index = 2
    /\ MergedHandlers[1].when # "none"
    /\ applied.when[MergedHandlers[1].when] = "unknown"
    /\ applied.error.code \in MergedHandlers[1].codes

\* the i-th recovery action of the applied handler is the first that could
\* not be built or that the device reported failed
FirstBadAction(i) ==
    /\ i \in DOMAIN applied.sel.h.actions
    /\ \/ ~Builds(applied.sel.h.actions[i], applied.acts[i])
       \/ ~cfg.dry_run /\ applied.acts[i].exec = "fail"
    /\ \A j \in 1..(i - 1) :
          /\ Builds(applied.sel.h.actions[j], applied.acts[j])
          /\ cfg.dry_run \/ applied.acts[j].exec = "ok"

\* C9 (live observation provider): when a recovery action of the applied
\* handler could not be built or was reported failed, run returns the
\* failure HANDLER_FAILED and the step is not attempted again.
C9_HandlerFailureAborts ==
    ( /\ applied.sel.scope # "none"
      /\ ~observer.playback
      /\ \E i \in DOMAIN applied.sel.h.actions : FirstBadAction(i) )
    => /\ pc = "done"
       /\ result.kind = "returned"
       /\ ~result.success
       /\ result.error.code = "HANDLER_FAILED"
       /\ applied.step >= 1 =>
             stepIdx = applied.step /\ attempt = applied.error.attempt

\* the applied handler declares escalate and its recovery actions succeeded
EscalateApplied ==
    /\ applied.sel.scope # "none"
    /\ applied.sel.h.resolution = "escalate"
    /\ \A j \in DOMAIN applied.sel.h.actions :
          /\ Builds(applied.sel.h.actions[j], applied.acts[j])
          /\ cfg.dry_run \/ applied.acts[j].exec = "ok"
    /\ ~(result.kind = "raised" /\ result.exception = "IndexError")

\* the Take_over actions dispatched by the last pipeline call
Takeovers ==
    {n \in (Len(applied.before) + 1)..Len(dispatched) :
        dispatched[n].kind = "takeover"}

TakeoverMessage ==
    IF applied.sel.h.takeover_message = "" THEN "User intervention required"
    ELSE applied.sel.h.takeover_message

NoFurtherAttempt ==
    /\ pc = "done"
    /\ applied.step >= 1 =>
          stepIdx = applied.step /\ attempt = applied.error.attempt

DispatchError ==
    \E i \in 1..Len(report) : \E k \in 1..Len(report[i].attempts) :
        report[i].attempts[k].error.code \in {"ACTION_FAILED", "ACTION_EXCEPTION"}

\* C18: in dry-run mode nothing is ever handed to the device interface: no
\* step action, no recovery action of a handler, no Take_over; no attempt
\* fails on its dispatch; and once the action of a step is built, the step
\* goes on to the capture and evaluation of its assert (the only other way
\* out of the action stage is the exception of an action that cannot be
\* built).
C18_DryRunDispatchesNothing ==
    /\ [](cfg.dry_run => dispatched = <<>> /\ ~DispatchError)
    /\ [][(cfg.dry_run /\ pc = "action") =>
            \/ pc' = "assert" /\ stepIdx' = stepIdx /\ attempt' = attempt
            \/ pc' = "done" /\ result'.kind = "raised"
                  /\ skill.steps[stepIdx].action \in TapLike]_vars

\* dry-run: a handler with a recovery action was applied on the first
\* attempt, and the action stage of the second attempt has passed to the
\* assert
C18_Witness ==
    /\ cfg.dry_run
    /\ pc = "assert"
    /\ attempt = 2
    /\ applied.sel.h.actions # <<>>
    /\ dispatched = <<>>

---------------------------------------------------------------------------
(* The specification of the head of SkillRunner.run: inputs *)

\* the var a skill declares for a name
VarOf(n) == IF n = "a" THEN "a_var" ELSE "b_var"

InputMetas ==
    {Undeclared} \cup {InputMeta(TRUE, d, r) : d \in BOOLEAN, r \in BOOLEAN}

\* every way a skill declares a and b and a caller passes them; the caller
\* may pass the template {{b}} for a
Calls ==
    {Call(TRUE, form, Dict(ma, mb), Dict(va, vb), Dict(ia, ib)) :
        form \in {"dict", "list"},
        ma \in InputMetas,
        mb \in {Undeclared, InputMeta(TRUE, TRUE, FALSE), InputMeta(TRUE, FALSE, TRUE)},
        va \in {Absent, VarOf("a")}, vb \in {Absent, VarOf("b")},
        ia \in {Absent, "a_given", "{{b}}"}, ib \in {Absent, "b_given"}}

InputInit ==
    /\ call \in Calls \cup BadCalls
    /\ cfg \in {c \in Configs : ~c.dry_run /\ c.strict_preconditions}
    /\ skill \in LongSkills
    /\ observer \in {LiveObserver} \cup PlaybackObservers
    /\ pc = "idle"
    /\ stepIdx = 0
    /\ attempt = 0
    /\ outcome = Unbound
    /\ error = NoError
    /\ cycles = 0
    /\ report = <<>>
    /\ dispatched = <<>>
    /\ result = NoResult
    /\ applied = NoApplied
    /\ co = CoIdle

InputSpec == InputInit /\ [][Run]_vars

\* the skill declares a required input without default that the caller did
\* not pass
MissingRequired ==
    \E n \in Names : /\ call.metas[n].declared
                     /\ call.metas[n].required
                     /\ ~call.metas[n].has_default
                     /\ call.inputs[n] = Absent

\* what the template {{b}} stands for: the caller's b, else the declared
\* default of b, else the var b, else the template itself
Resolved ==
    IF call.inputs["b"] # Absent THEN call.inputs["b"]
    ELSE IF call.metas["b"].declared /\ call.metas["b"].has_default
    THEN DefaultOf("b")
    ELSE IF call.vars["b"] # Absent THEN call.vars["b"]
    ELSE "{{b}}"

\* C19: when a required input without default is not supplied, run has
\* returned a failed result with code PRECONDITION_FAILED, with no
\* observation captured, no action dispatched and no step begun; otherwise
\* every name the caller supplied holds the caller's value in the prepared
\* variables (rendered, when the value is a template), never the declared
\* default or the skill-level var of that name.
C19_MissingInputFailsFirst ==
    (pc # "idle" /\ call.registered)
        => IF MissingRequired
           THEN /\ pc = "done"
                /\ result.kind = "returned" /\ ~result.success
                /\ result.error.code = "PRECONDITION_FAILED"
                /\ observer.index = 0
                /\ dispatched = <<>>
                /\ report = <<>>
           ELSE \A n \in Names :
                   call.inputs[n] # Absent =>
                       /\ call.variables[n] \notin {DefaultOf(n), VarOf(n)}
                       /\ call.variables[n] =
                             IF call.inputs[n] = "{{b}}" THEN Resolved
                                                         ELSE call.inputs[n]

\* a is required, has no default and was not passed, although the skill has
\* a var a and the caller passed b: run returned PRECONDITION_FAILED with
\* the playback provider untouched
C19_Witness ==
    /\ pc = "done"
    /\ call.registered
    /\ call.metas["a"] = InputMeta(TRUE, FALSE, TRUE)
    /\ call.inputs["a"] = Absent
    /\ call.vars["a"] = VarOf("a")
    /\ call.inputs["b"] = "b_given"
    /\ result.kind = "returned"
    /\ result.error.code = "PRECONDITION_FAILED"
    /\ observer.playback /\ observer.index = 0

---------------------------------------------------------------------------
(* Common error handlers (Spec) *)

\* _load_common_handlers(variables): the handlers the configuration brings
_load_common_handlers == cfg.common_error_handlers

\* the applied handler is one the skill itself declares in error_handlers
SkillLocalApplied ==
    /\ applied.sel.scope = "skill"
    /\ applied.sel.index > Len(_load_common_handlers)
    /\ applied.sel.h = skill.error_handlers[applied.sel.index - Len(_load_common_handlers)]

\* C21: when a common handler and a handler of the skill's own error_handlers
\* both match an error (and no on_error handler of the step does), the
\* skill's own handler is the one applied.
C21_SkillLocalBeforeCommon ==
    ( /\ applied.error # NoError
      /\ \A j \in DOMAIN LocalHandlers : ~Eligible(LocalHandlers[j])
      /\ \E j \in DOMAIN _load_common_handlers : Eligible(_load_common_handlers[j])
      /\ \E j \in DOMAIN skill.error_handlers : Eligible(skill.error_handlers[j]) )
    => SkillLocalApplied

---------------------------------------------------------------------------
(* Reporting (Spec) *)

\* the attempt of the current step is over: the loop is at its head, or
\* run has returned from inside a step
BetweenAttempts ==
    /\ stepIdx >= 1
    /\ pc = "loop" \/ (pc = "done" /\ result.kind = "returned")

\* the action dispatched as dispatched[n] belongs to an attempt that is over
AttemptOver(n) ==
    \/ dispatched[n].step < stepIdx
    \/ dispatched[n].attempt < attempt
    \/ BetweenAttempts

\* C22: for every step that is run, its StepReport holds one
\* StepAttemptReport per attempt started, whatever the attempt's outcome,
\* and every action of a step handed to the device appears in the record of
\* its attempt.
C22_EveryAttemptRecorded ==
    /\ BetweenAttempts => Len(report[Len(report)].attempts) = attempt
    /\ \A n \in DOMAIN dispatched :
          (dispatched[n].kind = "step" /\ AttemptOver(n)) =>
              \E k \in DOMAIN report[dispatched[n].step].attempts :
                  /\ report[dispatched[n].step].attempts[k].attempt
                         = dispatched[n].attempt
                  /\ report[dispatched[n].step].attempts[k].has_action

\* run has returned the failure of a step
StepFailed ==
    /\ pc = "done"
    /\ result.kind = "returned"
    /\ ~result.success
    /\ report # <<>>
    /\ ~report[Len(report)].success

---------------------------------------------------------------------------
(* The assert of a step (Spec) *)

\* this step hands the action of the current step to the device, which
\* executes it successfully
DispatchedOk ==
    /\ pc = "action"
    /\ Len(dispatched') = Len(dispatched) + 1
    /\ dispatched'[Len(dispatched')].kind = "step"
    /\ dispatched'[Len(dispatched')].result = "ok"

\* this step evaluates the assert of the current step and finds it false, or
\* unknown under strict postconditions
AssertFails ==
    /\ pc = "assert"
    /\ applied'.error.code = "POSTCONDITION_FAILED"
    /\ applied'.error.stage = "assert"
    /\ applied'.error.step_id = stepIdx
    /\ applied'.error.attempt = attempt

\* C24: with dry_run off, a successful dispatch of the step's action is
\* followed by the capture and evaluation of the step's assert in the same
\* attempt; a failed assert goes to the error pipeline as
\* POSTCONDITION_FAILED and leaves a failed record; and a record of success
\* is only written by an attempt whose assert held.
C24_AssertAfterDispatch ==
    /\ [][(~cfg.dry_run /\ DispatchedOk) =>
            pc' = "assert" /\ stepIdx' = stepIdx /\ attempt' = attempt]_vars
    /\ [][(pc = "assert" /\ report' # report) =>
            LET rec == report'[stepIdx].attempts[Len(report'[stepIdx].attempts)]
            IN  IF AssertFails
                THEN ~rec.success /\ rec.error # NoError
                ELSE rec.success /\ rec.attempt = attempt]_vars
    /\ [][(pc # "assert") =>
            \A i \in DOMAIN report' : \A k \in DOMAIN report'[i].attempts :
                report'[i].attempts[k].success =>
                    /\ i \in DOMAIN report
                    /\ k \in DOMAIN report[i].attempts
                    /\ report[i].attempts[k].success]_vars

---------------------------------------------------------------------------
(* The order of the steps (Spec) *)

\* the steps begun so far are steps 1..Len(report), in that order, and every
\* one but the current has succeeded
InDeclaredOrder ==
    /\ Len(report) <= Len(skill.steps)
    /\ stepIdx = Len(report)
    /\ \A j \in DOMAIN report : report[j].step_id = j
    /\ \A j \in 1..(Len(report) - 1) : report[j].success

\* the actions of the steps reached the device in the order of the steps
\* and, within a step, of its attempts
DispatchedInOrder ==
    \A m, n \in DOMAIN dispatched :
        (m < n /\ dispatched[m].kind = "step" /\ dispatched[n].kind = "step") =>
            \/ dispatched[m].step < dispatched[n].step
            \/ /\ dispatched[m].step = dispatched[n].step
               /\ dispatched[m].attempt < dispatched[n].attempt

\* C30: the steps run strictly in declared order without overlap: the first
\* attempt of step i+1 starts only after step i finished as succeeded (by a
\* successful attempt or by a `continue` verdict); and once a step has
\* finished as failed nothing more happens: no later step is attempted, no
\* action is dispatched, the postconditions are not evaluated.
C30_StepsInOrder ==
    /\ [](InDeclaredOrder /\ DispatchedInOrder)
    /\ [](pc = "post" => /\ Len(report) = Len(skill.steps)
                         /\ \A j \in DOMAIN report : report[j].success)
    /\ [][stepIdx' # stepIdx =>
            /\ stepIdx' = stepIdx + 1
            /\ stepIdx >= 1 => report'[stepIdx].success
            /\ attempt' = 0
            /\ pc' = "loop"]_vars
    /\ [][attempt' # attempt /\ attempt' # 0 =>
            /\ attempt' = attempt + 1
            /\ stepIdx' = stepIdx
            /\ stepIdx >= 1]_vars
    /\ [][pc # "done"]_vars

\* the first step of a two-step skill succeeded, the second was attempted
\* and failed, and run returned that failure
C30_Witness ==
    /\ pc = "done"
    /\ result.kind = "returned"
    /\ Len(skill.steps) = 2
    /\ Len(report) = 2
    /\ report[1].success
    /\ ~report[2].success
    /\ report[2].attempts # <<>>
    /\ result.error.step_id = 2

---------------------------------------------------------------------------
(* The before_step handler loop (FairSpec) *)

\* SkillRunner.run as a running thread: a cycle of the handler loop that can
\* be taken is taken
FairSpec == Spec /\ WF_vars(BeforeCycle)

\* the before_step handlers of the current step
BeforeList ==
    _collect_handlers(TRUE, skill.steps[stepIdx].on_error, MergedHandlers,
                      "before_step")

\* what one cycle of the loop can come to in the current state
BeforeOutcomes ==
    {BeforeHandlers(BeforeList, envs, 1, FALSE, dispatched, observer) :
        envs \in BeforeEnvs(BeforeList)}

\* the cycle just taken is one of the given outcomes
CycleTook(b) ==
    /\ b.status = "ok"
    /\ dispatched' = b.disp
    /\ observer' = b.obs

\* C31: before each attempt the before_step handler loop runs at most
\* max_handler_cycles cycles; it goes round again only after a cycle in which
\* a handler matched, and leaves for the guard after a cycle without a match
\* or after the last allowed cycle; the guard is reached only from the end of
\* the loop (or directly when the step has no before_step handler); and the
\* loop always ends, also when a handler matches on every observation.
C31_BeforeLoopBounded ==
    /\ [](cycles <= max_handler_cycles)
    /\ [](pc = "before" => cycles < max_handler_cycles /\ BeforeList # <<>>)
    /\ [][pc = "before" /\ pc' = "before" =>
            /\ cycles' = cycles + 1
            /\ cycles' < max_handler_cycles
            /\ \E b \in BeforeOutcomes : b.matched /\ CycleTook(b)]_vars
    /\ [][pc = "before" /\ pc' = "guard" =>
            /\ cycles' = cycles + 1
            /\ \/ cycles' = max_handler_cycles
               \/ \E b \in BeforeOutcomes : ~b.matched /\ CycleTook(b)]_vars
    /\ [][pc' = "guard" =>
            \/ pc = "before"
            \/ pc = "loop" /\ BeforeList = <<>>]_vars
    /\ [][pc' = "action" => pc = "guard"]_vars
    /\ [](pc = "before" => <>(pc # "before"))

\* a handler without condition matched in every cycle and the loop was cut
\* off at the limit, after which the guard is evaluated
C31_Witness ==
    /\ pc = "guard"
    /\ cycles = max_handler_cycles
    /\ \E i \in DOMAIN BeforeList : BeforeList[i].h.when = "none"

---------------------------------------------------------------------------
(* The result of a run and the postconditions (Spec) *)

\* what evaluate_condition gave on the pass on which the last precondition or
\* postcondition check returned ("true" for a skill without the block)
Raw == applied.checked

\* run returned success only with every step of the skill finished as
\* succeeded
SuccessAfterAllSteps ==
    result.success =>
        /\ result.kind = "returned"
        /\ result.error = NoError
        /\ call.registered
        /\ Len(report) = Len(skill.steps)
        /\ \A j \in DOMAIN report : report[j].success

\* the step loop is entered only from preconditions that were satisfied
EnteredAfterPreconditions ==
    pc = "idle" /\ pc' = "loop" =>
        \/ Raw' = "true"
        \/ Raw' = "unknown" /\ ~cfg.strict_preconditions
        \/ Raw' = "unknown" /\ skill.preconditions.mode = "best_effort"

---------------------------------------------------------------------------
(* Whitelist and risk gating in SkillRouter.select (RouterSpec) *)

\* the router configuration with the whitelist and risk gating switched off
Ungated(rc) ==
    [rc EXCEPT !.enforce_skill_whitelist = FALSE, !.enforce_on_risk = FALSE]

\* select took the directive path
DirectivePath ==
    /\ co.pc = "routed"
    /\ co.router.enabled
    /\ co.router.allow_directive
    /\ co.task.directive # ""

\* the directive names a skill that the registry does not hold, or a shadow
\* skill that may not be executed
NamesNoRunnableSkill ==
    \/ \A i \in DOMAIN co.listing : co.listing[i].id # co.task.directive
    \/ /\ ~co.router.allow_shadow_execution
       /\ \E i \in DOMAIN co.listing : /\ co.listing[i].id = co.task.directive
                                       /\ _is_shadow(co.listing[i])

\* C33: gating only downgrades `skill` decisions: select returns `block` with
\* reason whitelist-block only where, with the whitelist and risk gating
\* off, it returns `skill`; and a directive that names an unregistered or a
\* shadow skill is decided the same way with and without gating.
C33_GatingOnlyDowngradesSkill ==
    co.pc = "routed" =>
        /\ (co.decision.action = "block" /\ co.decision.reason = "whitelist-block")
              => select(Ungated(co.router), co.listing, co.task).action = "skill"
        /\ (DirectivePath /\ NamesNoRunnableSkill)
              => co.decision = select(Ungated(co.router), co.listing, co.task)

---------------------------------------------------------------------------
(* The allow-list of retryable codes (Spec) *)

\* `outcome.retry_policy or retry_policy` for an outcome of the current step
EffectivePolicy(o) ==
    IF o.has_policy THEN o.retry_policy ELSE StepPolicy(stepIdx)

\* this step ends an attempt of the current step as failed
AttemptFailed ==
    /\ pc \in {"guard", "action", "assert"}
    /\ Len(report'[stepIdx].attempts) = Len(report[stepIdx].attempts) + 1
    /\ ~report'[stepIdx].attempts[Len(report'[stepIdx].attempts)].success
    /\ applied'.step = stepIdx

\* the step goes on to its attempt loop
GoesOn == pc' = "loop" /\ stepIdx' = stepIdx

\* C35: under an effective retry policy with an allow-list, an attempt that
\* fails with a code outside the list is not followed by another attempt of
\* the step, also when attempts remain; without an allow-list every code is
\* retried while attempts remain.
C35_AllowListRespected ==
    /\ [][AttemptFailed /\ EffectivePolicy(outcome').has_codes
             /\ applied'.error.code \notin EffectivePolicy(outcome').on_codes
          => ~GoesOn]_vars
    /\ [](pc = "loop" /\ attempt >= 1 =>
            /\ outcome # Unbound
            /\ attempt < EffectivePolicy(outcome).max_attempts
            /\ EffectivePolicy(outcome).has_codes =>
                  error.code \in EffectivePolicy(outcome).on_codes)
    /\ [][AttemptFailed /\ outcome'.resolution = "retry"
             /\ ~EffectivePolicy(outcome').has_codes
             /\ attempt < EffectivePolicy(outcome').max_attempts
          => GoesOn]_vars

\* an attempt failed with a code outside the allow-list while attempts
\* remained, and the step ended as failed
C35_Witness ==
    /\ pc = "done"
    /\ result.kind = "returned"
    /\ ~result.success
    /\ outcome # Unbound
    /\ outcome.resolution = "retry"
    /\ EffectivePolicy(outcome).has_codes
    /\ applied.step = stepIdx
    /\ applied.error.code \notin EffectivePolicy(outcome).on_codes
    /\ attempt < EffectivePolicy(outcome).max_attempts
    /\ attempt < max_attempts(stepIdx)

---------------------------------------------------------------------------
(* Failed preconditions and postconditions (Spec) *)

\* this step of run hands a failed precondition or postcondition block to
\* _handle_error
HandlesBlock ==
    /\ pc \in {"idle", "post"}
    /\ applied'.error.stage = (IF pc = "idle" THEN "preconditions"
                                              ELSE "postconditions")

\* what the step dispatched
Sent == SubSeq(dispatched', Len(dispatched) + 1, Len(dispatched'))

\* the actions of the selected handler went to the device at most once each,
\* in their order, followed by at most one Take_over
ActionsOnce ==
    LET actions == applied'.sel.h.actions
    IN  /\ SubSeq(dispatched', 1, Len(dispatched)) = dispatched
        /\ \A k \in DOMAIN Sent :
              IF Sent[k].kind = "handler"
              THEN k <= Len(actions) /\ Sent[k].action = actions[k]
              ELSE /\ Sent[k].kind = "takeover"
                   /\ k = Len(Sent)
                   /\ applied'.sel.h.resolution = "escalate"

\* C36: when the preconditions or postconditions are not satisfied run
\* returns a failed result whatever resolution the matching handler
\* declares: the handler's actions run once, the condition is not evaluated
\* again and no step is executed afterwards.
C36_BlockFailureIsFinal ==
    /\ [][HandlesBlock =>
            /\ pc' = "done"
            /\ result'.kind = "returned"
            /\ ~result'.success
            /\ report' = report
            /\ stepIdx' = stepIdx
            /\ ActionsOnce]_vars
    /\ [][pc = "done" => UNCHANGED vars]_vars

---------------------------------------------------------------------------
(* The calls of COTACoordinator.run per plan step (FairCoordSpec) *)

\* COTACoordinator.run as a running thread whose calls return: a step of run
\* that can be taken is taken
FairCoordSpec == CoordSpec /\ WF_vars(CoNext)

\* the positions of the history that belong to plan step k
RunsOf(k) == {i \in DOMAIN co.log : co.log[i].ev = "run" /\ co.log[i].step = k}

RecoversOf(k) ==
    {i \in DOMAIN co.log : co.log[i].ev = "recover" /\ co.log[i].step = k}

AllRuns == {i \in DOMAIN co.log : co.log[i].ev = "run"}

\* C37: for each plan step run calls SkillRunner.run at most three times
\* (the step, one recovery skill, one re-run of the step) and
\* System2.recover at most once; a re-run that failed is the last call, it
\* is not recovered again; so run makes at most 3 x (number of plan steps)
\* skill runs, and it terminates when each call returns.
C37_ThreeRunsPerStep ==
    /\ [](\A k \in 1..Len(co.plan.steps) :
            /\ Cardinality(RunsOf(k)) <= 3
            /\ Cardinality(RecoversOf(k)) <= 1
            /\ \A role \in {"step", "recovery", "retry"} :
                  Cardinality({i \in RunsOf(k) : co.log[i].role = role}) <= 1)
    /\ [](\A i \in DOMAIN co.log :
            (RunOf(i, "retry") /\ ~SucceededRun(co.log[i])) =>
                i = Len(co.log) /\ co.pc = "done")
    /\ [](Cardinality(AllRuns) <= 3 * Len(co.plan.steps))
    /\ <>(co.pc = "done")

\* a plan of two skill steps, each run, recovered and re-run: six skill runs
\* and two recover calls, and run is over
C37_Witness ==
    /\ co.pc = "done"
    /\ Len(co.plan.steps) = 2
    /\ Cardinality(AllRuns) = 6
    /\ Cardinality(RecoversOf(1)) = 1
    /\ Cardinality(RecoversOf(2)) = 1

---------------------------------------------------------------------------
(* "Task completed" (CoordSpec) *)

\* plan step k completed successfully: the run of a SKILL step, or its re-run
\* after a recovery, returned success; the dispatch of an INTENT step
\* returned a result that reports success
StepCompleted(k) ==
    IF co.plan.steps[k].kind = "skill"
    THEN \E i \in RunsOf(k) :
            co.log[i].role \in {"step", "retry"} /\ SucceededRun(co.log[i])
    ELSE /\ co.plan.steps[k].kind = "intent"
         /\ \E i \in DOMAIN co.log :
               /\ co.log[i].ev = "intent"
               /\ co.log[i].step = k
               /\ co.log[i].result.success

\* C38: run returns "Task completed" only if every step of the plan
\* completed successfully.
C38_CompletedMeansAllSucceeded ==
    (co.pc = "done" /\ co.ret.text = "Task completed") =>
        \A k \in 1..Len(co.plan.steps) : StepCompleted(k)

---------------------------------------------------------------------------
(* The objects behind a run: the registry's definitions and the copies run
   makes of them (RegistrySpec)

   The dicts and lists of the program are objects with an identity: heap is
   the sequence of them, an address is an index into it.  A value is a
   string or the address of a container; a container is a dict or a list of
   entries (a list entry has the key ""). *)

MaxRuns == 2

Text(s) == [at |-> 0, text |-> s]
At(a) == [at |-> a, text |-> ""]
Entry(key, val) == [key |-> key, val |-> val]
Object(kind, items) == [kind |-> kind, items |-> items]

Has(obj, key) == \E i \in DOMAIN obj.items : obj.items[i].key = key
Get(obj, key) == obj.items[CHOOSE i \in DOMAIN obj.items : obj.items[i].key = key].val

\* the key of a string that is exactly one template {{key}}, else ""
TemplateKey(s) ==
    IF s = "{{q}}" THEN "q"
    ELSE IF s = "{{items}}" THEN "items"
    ELSE IF s = "{{alias}}" THEN "alias"
    ELSE ""

\* a new object: the heap with it and its address
alloc(h, obj) == [heap |-> Append(h, obj), at |-> Len(h) + 1]

\* dict(x) and list(x) of a container x: a new container with the same
\* entries; the entries' values are shared, not copied.  dict_shared is the
\* assignment without the copy.
dict_shared(h, a) == [heap |-> h, at |-> a]

dict(h, a) == alloc(h, h[a])

list(h, a) == alloc(h, h[a])

\* target[key] = val
setitem(h, a, key, val) ==
    IF Has(h[a], key)
    THEN [h EXCEPT ![a].items =
            [i \in DOMAIN @ |-> IF @[i].key = key THEN Entry(key, val) ELSE @[i]]]
    ELSE [h EXCEPT ![a].items = Append(@, Entry(key, val))]

\* target.extend(other)
extend(h, a, b) == [h EXCEPT ![a].items = @ \o h[b].items]

\* render_string on a string of one template: str(variables[key]) when the
\* variables hold the key, else the string itself (utils.py 19-30)
render_text(h, s, variables) ==
    LET key == TemplateKey(s)
    IN  IF key # "" /\ Has(h[variables], key)
        THEN LET v == Get(h[variables], key)
             IN  IF v.at = 0 THEN v.text ELSE "<str of a container>"
        ELSE s

\* render_templates(obj, variables): a string that is one template of a list
\* variable becomes that list object itself; any other string is rendered; a
\* list or dict becomes a NEW list or dict of its rendered entries
RECURSIVE render_templates(_, _, _)
RECURSIVE RenderItems(_, _, _, _)
render_templates(h, v, variables) ==
    IF v.at = 0
    THEN LET key == TemplateKey(v.text)
             isList == /\ key # ""
                       /\ Has(h[variables], key)
                       /\ Get(h[variables], key).at # 0
                       /\ h[Get(h[variables], key).at].kind = "list"
         IN  IF isList THEN [heap |-> h, val |-> Get(h[variables], key)]
             ELSE [heap |-> h, val |-> Text(render_text(h, v.text, variables))]
    ELSE LET r == RenderItems(h, h[v.at].items, variables, <<>>)
             n == alloc(r.heap, Object(h[v.at].kind, r.items))
         IN  [heap |-> n.heap, val |-> At(n.at)]

RenderItems(h, items, variables, done) ==
    IF items = <<>> THEN [heap |-> h, items |-> done]
    ELSE LET r == render_templates(h, items[1].val, variables)
         IN  RenderItems(r.heap, Tail(items), variables,
                         Append(done, Entry(items[1].key, r.val)))

\* the loop of _prepare_variables over a dict spec["inputs"] (runner.py
\* 215-223): what it writes into variables, and whether it raises
RECURSIVE InputsLoop(_, _, _, _)
InputsLoop(h, variables, input_specs, inputs) ==
    IF input_specs = <<>> THEN [heap |-> h, raised |-> FALSE]
    ELSE LET name == input_specs[1].key
             meta == h[input_specs[1].val.at]
             rest == Tail(input_specs)
         IN  IF Has(meta, "default") /\ ~Has(inputs, name)
             THEN InputsLoop(setitem(h, variables, name, Get(meta, "default")),
                             variables, rest, inputs)
             ELSE IF Has(inputs, name)
             THEN InputsLoop(setitem(h, variables, name, Get(inputs, name)),
                             variables, rest, inputs)
             ELSE IF Has(meta, "required")
             THEN [heap |-> h, raised |-> TRUE]
             ELSE InputsLoop(h, variables, rest, inputs)

\* variables.update(inputs) on the object (line 235)
RECURSIVE UpdateAll(_, _, _)
UpdateAll(h, a, items) ==
    IF items = <<>> THEN h
    ELSE UpdateAll(setitem(h, a, items[1].key, items[1].val), a, Tail(items))

\* _prepare_variables(skill.spec, inputs) over the objects (lines 212-239):
\* the copy of spec["vars"], the writes into it, and its rendering
PrepareVariables(h, spec_at, inputs) ==
    LET d == dict(h, Get(h[spec_at], "vars").at)
        l == InputsLoop(d.heap, d.at, h[Get(h[spec_at], "inputs").at].items, inputs)
        u == UpdateAll(l.heap, d.at, inputs.items)
        t == IF Has(u[d.at], "timestamp") THEN u
             ELSE setitem(u, d.at, "timestamp", Text("now"))
        r == render_templates(t, At(d.at), d.at)
    IN  IF l.raised THEN [heap |-> l.heap, raised |-> TRUE, variables |-> 0]
        ELSE [heap |-> r.heap, raised |-> FALSE, variables |-> r.val.at]

\* the objects of one registered skill, stored from address b + 1 on: its
\* spec, vars, inputs, one input's meta, steps, one step, error_handlers, a
\* list variable and one handler
PerSkill ==
    Cardinality({"spec", "vars", "inputs", "meta", "steps", "step",
                 "error_handlers", "items", "handler"})

SkillObjects(b, d) ==
    << Object("dict", << Entry("vars", At(b + 2)), Entry("inputs", At(b + 3)),
                         Entry("steps", At(b + 5)),
                         Entry("error_handlers", At(b + 7)) >>),
       Object("dict", (IF d.list_var
                       THEN << Entry("items", At(b + 8)),
                               Entry("alias", Text("{{items}}")) >>
                       ELSE <<>>) \o << Entry("q", Text("q_var")) >>),
       Object("dict", IF d.input = "none" THEN <<>> ELSE << Entry("q", At(b + 4)) >>),
       Object("dict", IF d.input = "default"
                      THEN << Entry("default", Text("q_default")) >>
                      ELSE << Entry("required", Text("true")) >>),
       Object("list", << Entry("", At(b + 6)) >>),
       Object("dict", << Entry("action", Text("Type")), Entry("text", Text(d.text)) >>),
       Object("list", IF d.handler THEN << Entry("", At(b + 9)) >> ELSE <<>>),
       Object("list", << Entry("", Text("a")), Entry("", Text("{{q}}")) >>),
       Object("dict", << Entry("code", Text("UNKNOWN")),
                         Entry("message", Text("{{q}}")) >>) >>

SkillShapes ==
    [list_var : BOOLEAN, input : {"none", "default", "required"},
     handler : BOOLEAN, text : {"hello", "{{q}}", "{{alias}}"}]

SkillIds == {"s1", "s2"}

\* SkillRegistry.get(skill_id): the address of the definition's spec, 0 for
\* None
registry_get(skill_id) ==
    IF skill_id = "s1" THEN 1 ELSE IF skill_id = "s2" THEN PerSkill + 1 ELSE 0

\* config.common_error_handlers and the one handler it may hold
CommonAt == 2 * PerSkill + 1

CommonObjects(present) ==
    << Object("list", IF present THEN << Entry("", At(CommonAt + 1)) >> ELSE <<>>),
       Object("dict", << Entry("code", Text("APP_CRASH")),
                         Entry("message", Text("{{q}}")) >>) >>

\* _load_common_handlers(variables) over the objects (lines 241-249), with no
\* common_error_handlers_path
LoadCommonHandlers(h, variables) ==
    LET n == alloc(h, Object("list", <<>>))
        e == IF h[CommonAt].items # <<>> THEN extend(n.heap, n.at, CommonAt)
             ELSE n.heap
    IN  IF e[n.at].items = <<>>
        THEN LET none == alloc(e, Object("list", <<>>))
             IN  [heap |-> none.heap, val |-> At(none.at)]
        ELSE render_templates(e, At(n.at), variables)

\* the value of a stored object, followed through the addresses it holds
RECURSIVE Deep(_, _)
Deep(h, v) ==
    IF v.at = 0 THEN [kind |-> "str", text |-> v.text, items |-> <<>>]
    ELSE [kind |-> h[v.at].kind, text |-> "",
          items |-> [i \in DOMAIN h[v.at].items |->
                        Entry(h[v.at].items[i].key, Deep(h, h[v.at].items[i].val))]]

\* the definition the registry holds under an id
Stored(h, skill_id) == Deep(h, At(registry_get(skill_id)))

InputsPool ==
    { Object("dict", <<>>),
      Object("dict", << Entry("q", Text("q_given")) >>),
      Object("dict", << Entry("items", Text("{{q}}")), Entry("other", Text("x")) >>) }

NoRegistryRun == [found |-> FALSE, raised |-> FALSE, merged |-> FALSE, success |-> FALSE]

RegistryInit ==
    /\ cfg = CHOOSE c \in Configs : ~c.dry_run /\ c.strict_preconditions
    /\ skill = CHOOSE sk \in BeforeSkills : sk.steps[1].on_error = <<>>
    /\ call = GoodCall
    /\ observer = LiveObserver
    /\ pc = "idle"
    /\ stepIdx = 0
    /\ attempt = 0
    /\ outcome = Unbound
    /\ error = NoError
    /\ cycles = 0
    /\ report = <<>>
    /\ dispatched = <<>>
    /\ result = NoResult
    /\ applied = NoApplied
    /\ \E d1 \in SkillShapes, present \in BOOLEAN :
          LET d2 == [list_var |-> TRUE, input |-> "default", handler |-> TRUE,
                     text |-> "{{alias}}"]
              h == SkillObjects(0, d1) \o SkillObjects(PerSkill, d2)
                   \o CommonObjects(present)
          IN  co = [pc |-> "idle", heap |-> h,
                    before |-> [id \in SkillIds |-> Stored(h, id)],
                    skill_at |-> 0, variables |-> 0, spec |-> 0, runs |-> 0,
                    last |-> NoRegistryRun]

\* run, lines 94-123: the lookup and _prepare_variables
RegistryPrepare ==
    /\ co.pc = "idle"
    /\ co.runs < MaxRuns
    /\ \E skill_id \in SkillIds \cup {"ghost"}, inputs \in InputsPool :
          LET at == registry_get(skill_id)
              p == PrepareVariables(co.heap, at, inputs)
          IN  IF at = 0
              THEN SetCo([co EXCEPT !.runs = @ + 1, !.last = NoRegistryRun])
              ELSE IF p.raised
              THEN SetCo([co EXCEPT !.heap = p.heap, !.runs = @ + 1,
                                    !.last = [NoRegistryRun EXCEPT !.found = TRUE,
                                                           !.raised = TRUE]])
              ELSE SetCo([co EXCEPT !.pc = "prepared", !.heap = p.heap,
                                    !.skill_at = at, !.variables = p.variables,
                                    !.last = [NoRegistryRun EXCEPT !.found = TRUE]])

\* run, lines 124-130: the rendering of the spec and the merge of the common
\* handlers ahead of the skill's own
RegistryRender ==
    /\ co.pc = "prepared"
    /\ LET s == render_templates(co.heap, At(co.skill_at), co.variables)
           c == LoadCommonHandlers(s.heap, co.variables)
           merged == list(c.heap, c.val.at)
           own == Get(merged.heap[s.val.at], "error_handlers").at
           ext == extend(merged.heap, merged.at, own)
           copy == dict(ext, s.val.at)
           set == setitem(copy.heap, copy.at, "error_handlers", At(merged.at))
       IN  IF c.heap[c.val.at].items # <<>>
           THEN SetCo([co EXCEPT !.pc = "rendered", !.heap = set, !.spec = copy.at,
                                 !.last.merged = TRUE])
           ELSE SetCo([co EXCEPT !.pc = "rendered", !.heap = c.heap,
                                 !.spec = s.val.at])

\* run, lines 131-210: the steps read the rendered spec and write only into
\* the report and the actions they build
RegistrySteps ==
    /\ co.pc = "rendered"
    /\ \E success \in BOOLEAN :
          SetCo([co EXCEPT !.pc = "idle", !.runs = @ + 1, !.last.success = success])

RegistryNext == RegistryPrepare \/ RegistryRender \/ RegistrySteps

RegistrySpec == RegistryInit /\ [][RegistryNext]_vars

\* C39: whatever run does (an unknown id, inputs that raise, a run with or
\* without common handlers, a first or a later run), the definition the
\* registry holds under every id, with its vars, steps and error_handlers,
\* has the value it had before the first run
C39_RegistryUnchanged == \A id \in SkillIds : Stored(co.heap, id) = co.before[id]

\* an object run has made holds the address of an object of the registry
SharesStored ==
    \E a \in DOMAIN co.heap :
        /\ a > CommonAt + 1
        /\ \E i \in DOMAIN co.heap[a].items :
              co.heap[a].items[i].val.at \in 1..(2 * PerSkill)

\* a second run has ended after merging the common handlers, and an object
\* it made shares a list with the stored definition
C39_Witness ==
    /\ co.pc = "idle"
    /\ co.runs >= 2
    /\ co.last.merged
    /\ SharesStored

===========================================================================
